---- MODULE Spec2Model ----
(***************************************************************************)
(* Biodiversity agent tool router (src/bio_agent) as a state machine.      *)
(*                                                                         *)
(* Python values are modelled structurally.  A value is a record           *)
(*   [k, s, n, pad, items]                                                 *)
(* with k the Python type ("none", "int", "str", "list").  A str carries   *)
(* its content class s, the number n the content denotes, pad = 1 when it  *)
(* is surrounded by whitespace, and items for composite text:              *)
(*   s = ""      no content: "" (pad 0) or whitespace only (pad 1)         *)
(*   s = "num"   a decimal integer literal for n                           *)
(*   s = "cell"  a 15 digit hexadecimal token that decodes to H3 cell n    *)
(*   s = "hex"   a hexadecimal token of 8..15 digits that does not decode  *)
(*   s = "word"  other text without a comma (a species name)               *)
(*   s = "csv"   pieces joined by commas (items), not valid JSON           *)
(*   s = "json"  the JSON text of an array whose elements are items        *)
(***************************************************************************)
EXTENDS Integers, Sequences, FiniteSets, TLC

VARIABLES event, env, resp, trace, vfn, varg, vres, gold, ss, browser, page

vars == <<event, env, resp, trace, vfn, varg, vres, gold, ss, browser, page>>

routerVars == <<event, env, resp, trace>>

validatorVars == <<vfn, varg, vres>>

explorerVars == <<gold, ss, browser, page>>

----------------------------------------------------------------------------
(* Python values *)

PyNone == [k |-> "none", s |-> "", n |-> 0, pad |-> 0, items |-> <<>>]

PyInt(i) == [k |-> "int", s |-> "", n |-> i, pad |-> 0, items |-> <<>>]

PyStr(c, i, p) == [k |-> "str", s |-> c, n |-> i, pad |-> p, items |-> <<>>]

PyText(c, xs, p) == [k |-> "str", s |-> c, n |-> 0, pad |-> p, items |-> xs]

PyList(xs) == [k |-> "list", s |-> "", n |-> 0, pad |-> 0, items |-> xs]

EmptyStr == PyStr("", 0, 0)

PyBool(b) == [k |-> "bool", s |-> "", n |-> IF b THEN 1 ELSE 0, pad |-> 0, items |-> <<>>]

\* a float: not-a-number (c = "nan"), else the number i / Scale (c = "num")
PyFloat(c, i) == [k |-> "float", s |-> c, n |-> i, pad |-> 0, items |-> <<>>]

NaN == PyFloat("nan", 0)

\* a finite float is held to four decimals, the precision the handlers round to
Scale == 10000

\* float(v) of a number, in units of 1 / Scale
Fixed(v) == IF v.k = "float" THEN v.n ELSE v.n * Scale

\* bool(v)
Truthy(v) ==
    CASE v.k = "none" -> FALSE
      [] v.k \in {"int", "bool"} -> v.n # 0
      [] v.k = "float" -> v.s = "nan" \/ v.n # 0
      [] v.k = "str" -> ~(v.s = "" /\ v.pad = 0)
      [] OTHER -> v.items # <<>>

\* a or b
Or(a, b) == IF Truthy(a) THEN a ELSE b

\* s.strip()
Strip(v) == [v EXCEPT !.pad = 0]

\* str(v)
Str(v) ==
    CASE v.k = "str" -> v
      [] v.k = "int" -> PyStr("num", v.n, 0)
      [] v.k = "none" -> PyStr("word", 0, 0)
      [] OTHER -> PyText("repr", v.items, 0)

Ret(v) == [exc |-> "none", val |-> v]

Raise(e) == [exc |-> e, val |-> PyNone]

\* int(v): surrounding whitespace of a literal is accepted
ToInt(v) ==
    CASE v.k = "int" -> Ret(v)
      [] v.k = "str" /\ v.s = "num" -> Ret(PyInt(v.n))
      [] v.k = "str" -> Raise("ValueError")
      [] OTHER -> Raise("TypeError")

\* json.loads(text)
JsonLoads(v) ==
    CASE v.s = "num" -> Ret(PyInt(v.n))
      [] v.s = "json" -> Ret(PyList(v.items))
      [] OTHER -> Raise("JSONDecodeError")

Pieces(v) == IF v.s = "csv" THEN v.items ELSE <<v>>

\* [x.strip() for x in text.split(",") if x.strip()]
SplitCommas(v) ==
    LET parts == Pieces(v)
        stripped == [i \in 1..Len(parts) |-> Strip(parts[i])]
    IN  SelectSeq(stripped, Truthy)

----------------------------------------------------------------------------
(* H3 library: a cell number is resolution * CellBase + position *)

CellBase == 1000

H3GetResolution(v) ==
    IF v.s = "cell" THEN Ret(PyInt(v.n \div CellBase)) ELSE Raise("H3Error")

\* re.match(r"^[0-9a-fA-F]{8,15}$", s)
MatchesHexPattern(v) == v.pad = 0 /\ v.s \in {"cell", "hex"}

----------------------------------------------------------------------------
(* tools/validation.py *)

ResMin == 6

ResMax == 9

ResDefault == 7

KMin == 1

KMax == 3

KDefault == 1

YearMin == 2000

YearMax == 2100

MonthsMin == 1

MonthsMax == 60

MaxSpecies == 20

MaxCells == 100

validate_h3_id(h3_id) ==
    IF ~Truthy(h3_id) \/ h3_id.k # "str"
    THEN Raise("ValueError")
    ELSE LET s == Strip(Str(h3_id))
         IN  IF ~MatchesHexPattern(s) THEN Raise("ValueError")
             ELSE IF H3GetResolution(s).exc # "none" THEN Raise("ValueError")
             ELSE Ret(s)

RangeChecked(v, lo, hi, dflt) ==
    LET r == IF v.k # "none" THEN ToInt(v) ELSE Ret(PyInt(dflt))
    IN  IF r.exc # "none" THEN Raise("ValueError")
        ELSE IF ~(lo <= r.val.n /\ r.val.n <= hi) THEN Raise("ValueError")
        ELSE r

\* a variant that answers the default whatever is requested
validate_h3_resolution_default(res) == Ret(PyInt(ResDefault))

validate_h3_resolution(res) == RangeChecked(res, ResMin, ResMax, ResDefault)

validate_k_ring(k) == RangeChecked(k, KMin, KMax, KDefault)

validate_year(year) ==
    IF year.k = "none" THEN Ret(PyNone)
    ELSE RangeChecked(year, YearMin, YearMax, 0)

validate_last_n_months(m) ==
    IF m.k = "none" THEN Ret(PyNone)
    ELSE RangeChecked(m, MonthsMin, MonthsMax, 0)

\* the list a str or list argument is coerced to
AsList(v) == IF v.k = "str" THEN <<v>> ELSE v.items

StrippedNonBlank(xs) ==
    SelectSeq([i \in 1..Len(xs) |-> Strip(Str(xs[i]))], Truthy)

\* a variant that keeps the first 20 entries of a longer list
validate_species_list_truncating(ids_or_names) ==
    IF ids_or_names.k = "none" THEN Ret(PyList(<<>>))
    ELSE IF ids_or_names.k \notin {"str", "list"} THEN Raise("ValueError")
    ELSE LET out == StrippedNonBlank(AsList(ids_or_names))
         IN  IF out = <<>> THEN Raise("ValueError")
             ELSE IF Len(out) > MaxSpecies
                  THEN Ret(PyList(SubSeq(out, 1, MaxSpecies)))
             ELSE Ret(PyList(out))

validate_species_list(ids_or_names) ==
    IF ids_or_names.k = "none" THEN Ret(PyList(<<>>))
    ELSE IF ids_or_names.k \notin {"str", "list"} THEN Raise("ValueError")
    ELSE LET out == StrippedNonBlank(AsList(ids_or_names))
         IN  IF out = <<>> THEN Raise("ValueError")
             ELSE IF Len(out) > MaxSpecies THEN Raise("ValueError")
             ELSE Ret(PyList(out))

IsValidCell(s) == validate_h3_id(s).exc = "none"

validate_h3_id_list(h3_ids) ==
    IF h3_ids.k = "none" THEN Ret(PyList(<<>>))
    ELSE IF h3_ids.k \notin {"str", "list"} THEN Raise("ValueError")
    ELSE LET out == SelectSeq(StrippedNonBlank(AsList(h3_ids)), IsValidCell)
         IN  IF Len(out) > MaxCells THEN Raise("ValueError")
             ELSE Ret(PyList(out))

----------------------------------------------------------------------------
(* Parameter mappings.  A mapping is a function from the names present to   *)
(* their values; a request body is [kind, props] with kind "none", "list"   *)
(* (properties given as a list of name/value entries) or "dict".            *)

Get(p, key) == IF key \in DOMAIN p THEN p[key] ELSE PyNone

NoBody == [kind |-> "none", props |-> <<>>]

\* _parse_params of the handlers that accept list and mapping properties
ParseParams(params, body) ==
    IF body.kind \in {"list", "dict"} THEN body.props @@ params ELSE params

\* _parse_params of the handlers that read list properties only
ParseParamsListOnly(params, body) ==
    IF body.kind = "list" THEN body.props @@ params ELSE params

params_to_dict(params, body) ==
    IF body.kind \in {"list", "dict"} THEN body.props @@ params ELSE params

----------------------------------------------------------------------------
(* db.py: the environment of one invocation is                              *)
(*   [creds, connect, query, hexSpecies]                                    *)
(* creds: the credentials are configured; connect: psycopg2.connect         *)
(* succeeds; query: statements execute without error; hexSpecies: the       *)
(* species names the threatened-species-of-a-cell query returns;            *)
(* cell_metrics, osm_hex_features: the rows of these tables, in storage     *)
(* order, each row a mapping from column names to values.                   *)

\* the position of entry i when a sequence is ordered by keys, ties in place
Rank(keys, i) ==
    Cardinality({j \in 1..Len(keys) :
        keys[j] < keys[i] \/ (keys[j] = keys[i] /\ j < i)}) + 1

\* ORDER BY: rows in ascending order of their keys
OrderBy(rows, keys) ==
    [r \in 1..Len(rows) |-> rows[CHOOSE i \in 1..Len(rows) : Rank(keys, i) = r]]

\* _to_json_val without the not-a-number case
to_json_val_keeping_nan(v) ==
    CASE v.k = "none" -> PyNone
      [] v.k \in {"int", "str", "bool", "float"} -> v
      [] OTHER -> Str(v)

\* _to_json_val(v), the conversion every handler applies to a column value
to_json_val(v) ==
    CASE v.k = "none" -> PyNone
      [] v.k = "float" /\ v.s = "nan" -> PyNone
      [] v.k \in {"int", "str", "bool", "float"} -> v
      [] OTHER -> Str(v)

\* {k: _to_json_val(v) for k, v in row.items()}
JsonRow(r) == [c \in DOMAIN r |-> to_json_val(r[c])]

JsonRows(rows) == [i \in 1..Len(rows) |-> JsonRow(rows[i])]

Op(o, q, args) == [op |-> o, q |-> q, args |-> args]

OpConnect == Op("connect", "", <<>>)

OpClose == Op("close", "", <<>>)

Stmt(q, args) == Op("execute", q, args)

H(exc, body, ops) == [exc |-> exc, body |-> body, ops |-> ops]

\* the exception get_connection raises before yielding, "none" when it yields
get_connection(e) ==
    IF ~e.creds THEN "ValueError"
    ELSE IF ~e.connect THEN "OperationalError"
    ELSE "none"

\* with db.get_connection() as conn: run stmts, return body
WithConnection(e, stmts, body) ==
    LET c == get_connection(e)
    IN  IF c # "none" THEN H(c, <<>>, <<>>)
        ELSE IF stmts # <<>> /\ ~e.query
        THEN H("DatabaseError", <<>>, <<OpConnect, stmts[1], OpClose>>)
        ELSE H("none", body, <<OpConnect>> \o stmts \o <<OpClose>>)

----------------------------------------------------------------------------
(* tools/get_hex_metrics.py *)

ThisYear == 2026

Max(a, b) == IF a >= b THEN a ELSE b

\* a variant in which an explicit range takes precedence over last_n_months
get_year_filter_explicit_first(p) ==
    LET start == Or(Get(p, "time_start"), Get(p, "start_year"))
        end == Or(Get(p, "time_end"), Get(p, "end_year"))
        last_n == Get(p, "last_n_months")
        n == ToInt(last_n)
        s == IF Truthy(start) THEN ToInt(start) ELSE Ret(PyInt(YearMin))
        e == IF Truthy(end) THEN ToInt(end) ELSE Ret(PyInt(ThisYear))
    IN  IF (start.k # "none" \/ end.k # "none") /\ s.exc = "none" /\ e.exc = "none"
        THEN <<s.val, e.val>>
        ELSE IF last_n.k # "none" /\ n.exc = "none" /\ n.val.n > 0
        THEN <<PyInt(Max(YearMin, ThisYear - (n.val.n \div 12) - 1)), PyInt(ThisYear)>>
        ELSE <<PyNone, PyNone>>

get_year_filter(p) ==
    LET start == Or(Get(p, "time_start"), Get(p, "start_year"))
        end == Or(Get(p, "time_end"), Get(p, "end_year"))
        last_n == Get(p, "last_n_months")
        n == ToInt(last_n)
        s == IF Truthy(start) THEN ToInt(start) ELSE Ret(PyInt(YearMin))
        e == IF Truthy(end) THEN ToInt(end) ELSE Ret(PyInt(ThisYear))
        explicit ==
            IF (start.k # "none" \/ end.k # "none")
               /\ s.exc = "none" /\ e.exc = "none"
            THEN <<s.val, e.val>>
            ELSE <<PyNone, PyNone>>
    IN  IF last_n.k # "none" /\ n.exc = "none"
        THEN IF n.val.n <= 0 THEN <<PyNone, PyNone>>
             ELSE <<PyInt(Max(YearMin, ThisYear - (n.val.n \div 12) - 1)),
                    PyInt(ThisYear)>>
        ELSE explicit

\* SELECT * FROM gbif_cell_metrics WHERE h3_index = .. AND h3_resolution = ..
\* [AND year BETWEEN .. AND ..] ORDER BY year
select_cell_metrics(e, args) ==
    LET Hit(r) == /\ r.h3_index = args[1]
                  /\ r.h3_resolution.n = args[2].n
                  /\ Len(args) = 4 =>
                        (args[3].n <= r.year.n /\ r.year.n <= args[4].n)
        rows == SelectSeq(e.cell_metrics, Hit)
    IN  OrderBy(rows, [i \in 1..Len(rows) |-> rows[i].year.n])

\* a variant that subtracts the other way round
Minus_reversed(a, b) ==
    LET x == Or(a, PyInt(0))
        y == Or(b, PyInt(0))
    IN  IF x.k = "float" \/ y.k = "float"
        THEN PyFloat("num", Fixed(y) - Fixed(x))
        ELSE PyInt(y.n - x.n)

\* (a or 0) - (b or 0)
Minus(a, b) ==
    LET x == Or(a, PyInt(0))
        y == Or(b, PyInt(0))
    IN  IF x.k = "float" \/ y.k = "float"
        THEN PyFloat("num", Fixed(x) - Fixed(y))
        ELSE PyInt(x.n - y.n)

\* round(x, digits) of a float held in units of 1 / Scale
Round(n, q) == ((n + (q \div 2)) \div q) * q

trend_of(metrics) ==
    LET first == metrics[1]
        last == metrics[Len(metrics)]
    IN  IF Len(metrics) >= 2
        THEN [species_richness_change |->
                  Minus(last.species_richness_cell, first.species_richness_cell),
              threatened_change |->
                  Minus(last.n_threatened_species, first.n_threatened_species),
              dqi_change |->
                  PyFloat("num", Round(Fixed(Or(last.dqi, PyInt(0)))
                                       - Fixed(Or(first.dqi, PyInt(0))), 1))]
        ELSE PyNone

get_hex_metrics(params, body, e) ==
    LET p == ParseParams(params, body)
        h3_id == validate_h3_id(Or(Or(Get(p, "h3_id"), Get(p, "h3Id")), EmptyStr))
        h3_res == validate_h3_resolution(Or(Get(p, "h3_res"), Get(p, "h3Res")))
        yf == get_year_filter(p)
        args == <<h3_id.val, h3_res.val>>
                \o (IF yf[1].k # "none" /\ yf[2].k # "none" THEN yf ELSE <<>>)
        metrics == JsonRows(select_cell_metrics(e, args))
    IN  IF h3_id.exc # "none" \/ h3_res.exc # "none"
        THEN H("ValueError", <<>>, <<>>)
        ELSE WithConnection(e, <<Stmt("cell_metrics", args)>>,
                 [h3_id |-> h3_id.val, h3_resolution |-> h3_res.val.n,
                  metrics |-> metrics, trend |-> trend_of(metrics)])

----------------------------------------------------------------------------
(* tools/get_neighbor_hexes.py *)

Aperture == 7

RECURSIVE Pow(_, _)
Pow(b, x) == IF x = 0 THEN 1 ELSE b * Pow(b, x - 1)

\* h3.cell_to_parent: fails when the requested resolution is finer
cell_to_parent(c, res) ==
    LET r == c.n \div CellBase
        pos == c.n % CellBase
    IN  IF res > r THEN Raise("H3Error")
        ELSE Ret(PyStr("cell", res * CellBase + (pos \div Pow(Aperture, r - res)), 0))

\* the cells of one resolution lie on a hexagonal grid of GridSide columns
\* and rows that wraps around: position = column * GridSide + row
GridSide == 30

Abs(x) == IF x < 0 THEN -x ELSE x

\* h3.grid_disk(c, k): the cells within grid distance k of c, c included
grid_disk(c, k) ==
    LET res == c.n \div CellBase
        pos == c.n % CellBase
        col == pos \div GridSide
        row == pos % GridSide
    IN  {PyStr("cell", res * CellBase + ((col + dc) % GridSide) * GridSide
                                      + ((row + dr) % GridSide), 0) :
            <<dc, dr>> \in {d \in (-k..k) \X (-k..k) : Abs(d[1] + d[2]) <= k}}

\* a variant of the ring that leaves the centre cell in
Sorted_with_centre(cells, centre) ==
    [i \in 1..Cardinality(cells) |->
        CHOOSE c \in cells : Cardinality({d \in cells : d.n < c.n}) = i - 1]

\* sorted(list(set(ring) - {h3_id}))
Sorted(cells, centre) ==
    LET rest == cells \ {centre}
    IN  [i \in 1..Cardinality(rest) |->
            CHOOSE c \in rest : Cardinality({d \in rest : d.n < c.n}) = i - 1]

\* hashlib.sha256(payload.encode()).hexdigest()[:16], the payload kept
Sha256(payload) == PyText("sha256", payload, 0)

get_neighbor_hexes(params, body, e) ==
    LET p == ParseParamsListOnly(params, body)
        h3_id == validate_h3_id(Or(Or(Get(p, "h3_id"), Get(p, "h3Id")), EmptyStr))
        h3_res == validate_h3_resolution(Or(Get(p, "h3_res"), Get(p, "h3Res")))
        k == validate_k_ring(Or(Get(p, "k_ring"), Get(p, "kRing")))
        parent == cell_to_parent(h3_id.val, h3_res.val.n)
        cell == IF H3GetResolution(h3_id.val).val.n # h3_res.val.n
                   /\ parent.exc = "none"
                THEN parent.val ELSE h3_id.val
        neighbors == Sorted(grid_disk(cell, k.val.n), cell)
    IN  IF h3_id.exc # "none" \/ h3_res.exc # "none" \/ k.exc # "none"
        THEN H("ValueError", <<>>, <<>>)
        ELSE H("none", [h3_id |-> cell, h3_resolution |-> h3_res.val.n,
                        k_ring |-> k.val.n, neighbor_count |-> Len(neighbors),
                        neighbor_h3_ids |-> neighbors,
                        neighbor_set_id |-> Sha256(<<cell, h3_res.val, k.val>>)],
               <<>>)

----------------------------------------------------------------------------
(* tools/get_neighbor_summary.py *)

\* the value a str argument is replaced by: json.loads, else a comma split
LoadsOrSplit(raw) ==
    LET j == JsonLoads(raw)
    IN  IF j.exc = "none" THEN j.val ELSE PyList(SplitCommas(raw))

neighbor_summary_params(params, body) ==
    LET p == ParseParams(params, body)
        h3_ids_raw == Or(Get(p, "h3_ids"), Get(p, "h3Ids"))
    IN  IF h3_ids_raw.k = "str"
        THEN ("h3_ids" :> LoadsOrSplit(h3_ids_raw)) @@ p
        ELSE p

InSeq(x, xs) == \E i \in 1..Len(xs) : xs[i] = x

\* the rows of gbif_cell_metrics of the given cells at the given resolution
rows_of_cells(e, ids, res) ==
    LET Hit(r) == InSeq(r.h3_index, ids) /\ r.h3_resolution.n = res.n
    IN  SelectSeq(e.cell_metrics, Hit)

RECURSIVE MaxOf(_)
MaxOf(ns) == IF Len(ns) = 1 THEN ns[1] ELSE Max(ns[1], MaxOf(Tail(ns)))

\* SELECT MAX(year) FROM gbif_cell_metrics WHERE h3_index IN (..) AND h3_resolution = ..
select_max_year(e, ids, res) ==
    LET rows == rows_of_cells(e, ids, res)
    IN  IF rows = <<>> THEN PyNone
        ELSE PyInt(MaxOf([i \in 1..Len(rows) |-> rows[i].year.n]))

\* a comes before b under ORDER BY .. DESC NULLS LAST (not-a-number sorts highest)
ScoreBefore(a, b) ==
    IF a.k = "none" THEN FALSE
    ELSE IF b.k = "none" THEN TRUE
    ELSE IF a.s = "nan" THEN b.s # "nan"
    ELSE IF b.s = "nan" THEN FALSE
    ELSE Fixed(a) > Fixed(b)

\* SELECT * FROM gbif_cell_metrics WHERE h3_index IN (..) AND h3_resolution = ..
\* [AND year = ..] ORDER BY threat_score_weighted DESC NULLS LAST
select_cells_metrics(e, ids, res, year) ==
    LET Hit(r) == year.k # "none" => r.year.n = year.n
        rows == SelectSeq(rows_of_cells(e, ids, res), Hit)
        score(i) == rows[i].threat_score_weighted
        rank(i) == Cardinality({j \in 1..Len(rows) :
                       \/ ScoreBefore(score(j), score(i))
                       \/ ~ScoreBefore(score(i), score(j)) /\ j < i}) + 1
    IN  [r \in 1..Len(rows) |-> rows[CHOOSE i \in 1..Len(rows) : rank(i) = r]]

\* [c.get(col) for c in cells if c.get(col) is not None]
Column(cells, col) ==
    LET vals == [i \in 1..Len(cells) |-> cells[i][col]]
        Given(v) == v.k # "none"
    IN  SelectSeq(vals, Given)

RECURSIVE SumFixed(_)
SumFixed(vs) == IF vs = <<>> THEN 0 ELSE Fixed(Head(vs)) + SumFixed(Tail(vs))

AnyFloat(vs) == \E i \in 1..Len(vs) : vs[i].k = "float"

\* sum(v)
Sum(vs) ==
    IF AnyFloat(vs) THEN PyFloat("num", SumFixed(vs))
    ELSE PyInt(SumFixed(vs) \div Scale)

\* round(mean(v), digits) if v else None; q is Scale / 10^digits
RoundedMean(vs, q) ==
    IF vs = <<>> THEN PyNone
    ELSE PyFloat("num", Round(SumFixed(vs) \div Len(vs), q))

\* round(median(v), 2) if v else None
RoundedMedian(vs, q) ==
    LET srt == OrderBy(vs, [i \in 1..Len(vs) |-> Fixed(vs[i])])
        mid == Len(vs) \div 2
    IN  IF vs = <<>> THEN PyNone
        ELSE IF Len(vs) % 2 = 0
        THEN PyFloat("num", Round((Fixed(srt[mid + 1]) + Fixed(srt[mid])) \div 2, q))
        ELSE IF srt[mid + 1].k = "float"
        THEN PyFloat("num", Round(srt[mid + 1].n, q))
        ELSE srt[mid + 1]

summary_of(cells) ==
    [mean_richness |-> RoundedMean(Column(cells, "species_richness_cell"), Scale \div 100),
     median_richness |->
         RoundedMedian(Column(cells, "species_richness_cell"), Scale \div 100),
     total_threatened |->
         IF Column(cells, "n_threatened_species") = <<>> THEN PyInt(0)
         ELSE Sum(Column(cells, "n_threatened_species")),
     mean_dqi |-> RoundedMean(Column(cells, "dqi"), 1),
     mean_threat_score |->
         RoundedMean(Column(cells, "threat_score_weighted"), Scale \div 100),
     cell_count |-> PyInt(Len(cells))]

get_neighbor_summary(params, body, e) ==
    LET p == neighbor_summary_params(params, body)
        h3_ids == validate_h3_id_list(Or(Get(p, "h3_ids"), Get(p, "h3Ids")))
        h3_res == validate_h3_resolution(Or(Get(p, "h3_res"), Get(p, "h3Res")))
        year == validate_year(Get(p, "year"))
        ids == h3_ids.val.items
        cells_ == ids \o <<h3_res.val>>
        latest == select_max_year(e, ids, h3_res.val)
        used == IF year.val.k = "none" /\ Truthy(latest) THEN latest ELSE year.val
        stmts == IF year.val.k = "none"
                 THEN <<Stmt("max_year_of_cells", cells_),
                        Stmt("cells_metrics",
                             cells_ \o (IF used.k # "none" THEN <<used>> ELSE <<>>))>>
                 ELSE <<Stmt("cells_metrics", cells_ \o <<year.val>>)>>
        cells == JsonRows(select_cells_metrics(e, ids, h3_res.val, used))
    IN  IF h3_ids.exc # "none" \/ h3_res.exc # "none" \/ year.exc # "none"
        THEN H("ValueError", <<>>, <<>>)
        ELSE IF ids = <<>>
        THEN H("none", [h3_ids |-> <<>>, h3_resolution |-> h3_res.val.n,
                        summary |-> PyNone, message |-> "No valid H3 IDs provided"],
               <<>>)
        ELSE WithConnection(e, stmts,
                 IF cells = <<>>
                 THEN [h3_ids |-> ids, h3_resolution |-> h3_res.val.n,
                       year |-> used, summary |-> PyNone,
                       top_risky_neighbors |-> <<>>,
                       message |-> "No metrics found for given H3 cells"]
                 ELSE [h3_ids |-> ids, h3_resolution |-> h3_res.val.n,
                       year |-> used, summary |-> summary_of(cells),
                       top_risky_neighbors |-> cells])

----------------------------------------------------------------------------
(* tools/get_hex_species_context.py *)

\* the rows of a sequence at the positions that pass a test, in order
KeepAt(rows, Keep(_)) ==
    LET idx == SelectSeq([i \in 1..Len(rows) |-> i], Keep)
    IN  [k \in 1..Len(idx) |-> rows[idx[k]]]

\* SELECT MAX(year) of the given rows of gbif_species_h3_mapping
max_year_of(rows) ==
    IF rows = <<>> THEN PyNone
    ELSE PyInt(MaxOf([i \in 1..Len(rows) |-> rows[i].year.n]))

\* a comes before b under ORDER BY .. DESC (nulls first, not-a-number next)
DescBefore(a, b) ==
    IF b.k = "none" THEN FALSE
    ELSE IF a.k = "none" THEN TRUE
    ELSE IF a.s = "nan" THEN b.s # "nan"
    ELSE IF b.s = "nan" THEN FALSE
    ELSE Fixed(a) > Fixed(b)

\* the species rows of a cell, the mapping joined to the dimension table:
\* WHERE h3_index = .. AND h3_resolution = .. [AND year = ..]
\* ORDER BY occurrence_count DESC
select_cell_species(e, h3_id, res, year) ==
    LET Hit(r) == /\ r.h3_index = h3_id /\ r.h3_resolution.n = res.n
                  /\ Truthy(year) => r.year.n = year.n
        rows == SelectSeq(e.species_h3_mapping, Hit)
        occ(i) == rows[i].occurrence_count
        rank(i) == Cardinality({j \in 1..Len(rows) :
                       \/ DescBefore(occ(j), occ(i))
                       \/ ~DescBefore(occ(i), occ(j)) /\ j < i}) + 1
    IN  [r \in 1..Len(rows) |-> rows[CHOOSE i \in 1..Len(rows) : rank(i) = r]]

\* the entry of one species row, its two flags made booleans
species_entry(r) ==
    [JsonRow(r) EXCEPT !.is_threatened = PyBool(Truthy(r.is_threatened)),
                       !.is_invasive = PyBool(Truthy(r.is_invasive))]

get_hex_species_context(params, body, e) ==
    LET p == ParseParamsListOnly(params, body)
        h3_id == validate_h3_id(Or(Or(Get(p, "h3_id"), Get(p, "h3Id")), EmptyStr))
        h3_res == validate_h3_resolution(Or(Get(p, "h3_res"), Get(p, "h3Res")))
        year == validate_year(Get(p, "year"))
        cell == <<h3_id.val, h3_res.val>>
        OfCell(r) == r.h3_index = h3_id.val /\ r.h3_resolution.n = h3_res.val.n
        of_cell == max_year_of(SelectSeq(e.species_h3_mapping, OfCell))
        overall == max_year_of(e.species_h3_mapping)
        used == IF year.val.k # "none" THEN year.val
                ELSE IF Truthy(of_cell) THEN of_cell
                ELSE IF Truthy(overall) THEN overall
                ELSE PyNone
        main == Stmt("cell_species", cell \o (IF Truthy(used) THEN <<used>> ELSE <<>>))
        stmts == IF year.val.k # "none" THEN <<main>>
                 ELSE IF Truthy(of_cell) THEN <<Stmt("max_year_of_cell", cell), main>>
                 ELSE <<Stmt("max_year_of_cell", cell), Stmt("max_year", <<>>), main>>
        all_species == select_cell_species(e, h3_id.val, h3_res.val, used)
        First(i) == \A j \in 1..(i - 1) :
                        all_species[j].taxon_key # all_species[i].taxon_key
        kept == KeepAt(all_species, First)
        Threatened(i) == Truthy(kept[i].is_threatened)
        Invasive(i) == Truthy(kept[i].is_invasive)
        top == [i \in 1..Len(kept) |-> species_entry(kept[i])]
    IN  IF h3_id.exc # "none" \/ h3_res.exc # "none" \/ year.exc # "none"
        THEN H("ValueError", <<>>, <<>>)
        ELSE WithConnection(e, stmts,
                 [h3_id |-> h3_id.val, h3_resolution |-> h3_res.val.n,
                  year |-> used, top_species |-> top,
                  threatened_species |-> KeepAt(top, Threatened),
                  invasive_species |-> KeepAt(top, Invasive)])

----------------------------------------------------------------------------
(* tools/get_osm_context.py *)

\* SELECT * FROM osm_hex_features WHERE h3_index = .. AND h3_resolution = ..
select_osm_features(e, args) ==
    LET Hit(r) == r.h3_index = args[1] /\ r.h3_resolution.n = args[2].n
    IN  SelectSeq(e.osm_hex_features, Hit)

\* the conversion of one column value in the handler's loop
osm_json_val(v) ==
    CASE v.k = "none" -> PyNone
      [] v.k \in {"int", "str", "bool"} -> v
      [] v.k = "float" -> IF v.s = "nan" THEN PyNone ELSE v
      [] OTHER -> Str(v)

get_osm_context(params, body, e) ==
    LET p == ParseParamsListOnly(params, body)
        h3_id == validate_h3_id(Or(Or(Get(p, "h3_id"), Get(p, "h3Id")), EmptyStr))
        h3_res == validate_h3_resolution(Or(Get(p, "h3_res"), Get(p, "h3Res")))
        rows == select_osm_features(e, <<h3_id.val, h3_res.val>>)
        r == rows[1]
    IN  IF h3_id.exc # "none" \/ h3_res.exc # "none"
        THEN H("ValueError", <<>>, <<>>)
        ELSE WithConnection(e, <<Stmt("osm_features", <<h3_id.val, h3_res.val>>)>>,
                 IF rows = <<>>
                 THEN [h3_id |-> h3_id.val, h3_resolution |-> h3_res.val.n,
                       osm_context |-> PyNone,
                       message |-> "No OSM data found for this cell"]
                 ELSE [h3_id |-> h3_id.val, h3_resolution |-> h3_res.val.n,
                       osm_context |-> [c \in DOMAIN r |-> osm_json_val(r[c])]])

----------------------------------------------------------------------------
(* tools/get_info_about_threatened_species.py *)

\* species_names as the first branch of the handler leaves it
threatened_names_from_param(v) ==
    CASE v.k = "str" -> LoadsOrSplit(v)
      [] v.k = "list" -> PyList(StrippedNonBlank(v.items))
      [] OTHER -> PyList(<<>>)

AllStr(xs) == \A i \in 1..Len(xs) : xs[i].k = "str"

\* s.lower() and SQL LOWER(s): a name in capitals has class "WORD"
Lower(v) == IF v.s = "WORD" THEN [v EXCEPT !.s = "word"] ELSE v

\* SELECT * FROM iucn_species_profiles WHERE LOWER(scientific_name) IN (..)
select_iucn_profiles(e, names_lower) ==
    LET Hit(r) == InSeq(Lower(r.scientific_name), names_lower)
    IN  SelectSeq(e.iucn_species_profiles, Hit)

\* the second with block: the profile query for species_names
threatened_profiles(species_names, e) ==
    IF ~Truthy(species_names)
    THEN H("none", [threatened_species_info |-> <<>>,
                    message |-> "No threatened species found"], <<>>)
    ELSE IF get_connection(e) # "none" THEN H(get_connection(e), <<>>, <<>>)
    ELSE IF species_names.k # "list"
    THEN H("TypeError", <<>>, <<OpConnect, OpClose>>)
    ELSE IF ~AllStr(species_names.items)
    THEN H("AttributeError", <<>>, <<OpConnect, OpClose>>)
    ELSE LET names_lower == [i \in 1..Len(species_names.items) |->
                                Lower(species_names.items[i])]
             result == JsonRows(select_iucn_profiles(e, names_lower))
         IN  WithConnection(e, <<Stmt("iucn_profiles", names_lower)>>,
                 [threatened_species_info |-> result, count |-> Len(result)])

get_info_about_threatened_species(params, body, e) ==
    LET p == ParseParams(params, body)
        h3_id == Or(Get(p, "h3_id"), Get(p, "h3Id"))
        h3_res == Or(Get(p, "h3_res"), Get(p, "h3Res"))
        given == Or(Get(p, "species_ids_or_names"), Get(p, "speciesIdsOrNames"))
        vid == validate_h3_id(h3_id)
        vres_ == validate_h3_resolution(h3_res)
        first == WithConnection(e,
                     <<Stmt("cell_threatened_species", <<vid.val, vres_.val>>)>>,
                     <<>>)
        second == threatened_profiles(PyList(SelectSeq(e.hexSpecies, Truthy)), e)
    IN  IF Truthy(given)
        THEN threatened_profiles(threatened_names_from_param(given), e)
        ELSE IF Truthy(h3_id) /\ Truthy(h3_res)
        THEN IF vid.exc # "none" \/ vres_.exc # "none"
             THEN H("ValueError", <<>>, <<>>)
             ELSE IF first.exc # "none" THEN first
             ELSE H(second.exc, second.body, first.ops \o second.ops)
        ELSE H("none", [threatened_species_info |-> <<>>,
                        message |-> "Provide either h3_id+h3_res or species_ids_or_names"],
               <<>>)

----------------------------------------------------------------------------
(* tools/get_species_profiles.py *)

species_profiles_params(params, body) ==
    LET p == ParseParams(params, body)
        ids_raw == Or(Or(Or(Get(p, "species_ids"), Get(p, "species_names")),
                         Get(p, "speciesIds")), Get(p, "speciesNames"))
    IN  ("species_ids_or_names" :>
            (IF ids_raw.k = "str" THEN LoadsOrSplit(ids_raw) ELSE ids_raw)) @@ p

IsNumeric(x) == ToInt(x).exc = "none"

IsName(x) == ~IsNumeric(x)

\* rows in the order of ORDER BY occurrence_count DESC NULLS LAST
ByOccurrence(rows) ==
    LET occ(i) == rows[i].occurrence_count
        rank(i) == Cardinality({j \in 1..Len(rows) :
                       \/ ScoreBefore(occ(j), occ(i))
                       \/ ~ScoreBefore(occ(i), occ(j)) /\ j < i}) + 1
    IN  [r \in 1..Len(rows) |-> rows[CHOOSE i \in 1..Len(rows) : rank(i) = r]]

\* SELECT DISTINCT ON (taxon_key) * FROM gbif_species_dim
\* WHERE taxon_key::text IN (..) ORDER BY taxon_key, occurrence_count DESC NULLS LAST
select_dim_by_key(e, numeric) ==
    LET Hit(r) == \E i \in 1..Len(numeric) :
                      numeric[i].s = "num" /\ numeric[i].n = r.taxon_key.n
        rows == ByOccurrence(SelectSeq(e.species_dim, Hit))
        First(i) == \A j \in 1..(i - 1) : rows[j].taxon_key # rows[i].taxon_key
        best == KeepAt(rows, First)
    IN  OrderBy(best, [i \in 1..Len(best) |-> best[i].taxon_key.n])

\* SELECT * FROM iucn_species_profiles WHERE LOWER(scientific_name) = LOWER(..)
select_iucn_exact(e, name) ==
    LET Hit(r) == Lower(r.scientific_name) = Lower(name)
    IN  SelectSeq(e.iucn_species_profiles, Hit)

\* text a holds text b: a name Word(i) spells the decimal digits of i as
\* letters, so Word(12) holds Word(1), Word(2) and Word(12)
Holds(a, b) ==
    /\ a.s = "word" /\ b.s = "word"
    /\ \/ b.n = a.n
       \/ a.n >= 10 /\ (b.n = a.n \div 10 \/ b.n = a.n % 10)

\* SELECT * FROM gbif_species_dim WHERE LOWER(species_name) LIKE LOWER(%..%)
\* ORDER BY occurrence_count DESC NULLS LAST
select_dim_like(e, name) ==
    LET Hit(r) == r.species_name.k = "str" /\ Holds(Lower(r.species_name), Lower(name))
    IN  ByOccurrence(SelectSeq(e.species_dim, Hit))

\* a row of gbif_species_dim as a profile
dim_profile(r) ==
    JsonRow([("source" :> PyStr("gbif_species_dim", 0, 0)) @@ r
                EXCEPT !.is_threatened = PyBool(Truthy(r.is_threatened)),
                       !.is_invasive = PyBool(Truthy(r.is_invasive))])

iucn_profile(r) == JsonRow(("source" :> PyStr("iucn_species_profiles", 0, 0)) @@ r)

NotFound(name) ==
    [requested |-> name, found |-> FALSE, message |-> "Species not found in database"]

\* a variant of the name loop that tries the substring match first
name_lookup_substring_first(e, name) ==
    LET exact == select_iucn_exact(e, name)
        like == select_dim_like(e, name)
    IN  IF like # <<>>
        THEN [stmts |-> <<Stmt("species_dim_like", <<name>>)>>,
              profiles |-> [i \in 1..Len(like) |-> dim_profile(like[i])]]
        ELSE [stmts |-> <<Stmt("species_dim_like", <<name>>),
                          Stmt("iucn_exact", <<name>>)>>,
              profiles |-> IF exact # <<>>
                           THEN <<iucn_profile(exact[1])>>
                           ELSE <<NotFound(name)>>]

\* one pass of the name loop: the statements issued and the profiles appended
name_lookup(e, name) ==
    LET exact == select_iucn_exact(e, name)
        like == select_dim_like(e, name)
    IN  IF exact # <<>>
        THEN [stmts |-> <<Stmt("iucn_exact", <<name>>)>>,
              profiles |-> <<iucn_profile(exact[1])>>]
        ELSE [stmts |-> <<Stmt("iucn_exact", <<name>>),
                          Stmt("species_dim_like", <<name>>)>>,
              profiles |-> IF like # <<>>
                           THEN [i \in 1..Len(like) |-> dim_profile(like[i])]
                           ELSE <<NotFound(name)>>]

RECURSIVE NameStmts(_, _)
NameStmts(e, names) ==
    IF names = <<>> THEN <<>>
    ELSE name_lookup(e, Head(names)).stmts \o NameStmts(e, Tail(names))

RECURSIVE NameProfiles(_, _)
NameProfiles(e, names) ==
    IF names = <<>> THEN <<>>
    ELSE name_lookup(e, Head(names)).profiles \o NameProfiles(e, Tail(names))

GetCol(r, col) == IF col \in DOMAIN r THEN r[col] ELSE PyNone

\* the profile_text of a profile: the columns it is built from, in order
\* (none of them: "No profile available")
profile_text(pr) ==
    LET cols == <<"species_name", "iucn_category", "rationale", "habitat_ecology",
                  "threats_text", "conservation_text">>
        Shown(c) == Truthy(GetCol(pr, c))
        occ == GetCol(pr, "occurrence_count")
        shown == SelectSeq(cols, Shown)
    IN  PyText("profile",
               [i \in 1..Len(shown) |-> pr[shown[i]]]
               \o (IF occ.k # "none" THEN <<occ>> ELSE <<>>), 0)

with_profile_text(pr) ==
    IF "found" \in DOMAIN pr THEN pr
    ELSE ("profile_text" :> profile_text(pr)) @@ pr

get_species_profiles(params, body, e) ==
    LET p == species_profiles_params(params, body)
        ids_or_names == validate_species_list(Get(p, "species_ids_or_names"))
        numeric == SelectSeq(ids_or_names.val.items, IsNumeric)
        names == SelectSeq(ids_or_names.val.items, IsName)
        by_key == select_dim_by_key(e, numeric)
        stmts == (IF numeric # <<>> THEN <<Stmt("species_dim_by_key", numeric)>>
                  ELSE <<>>) \o NameStmts(e, names)
        found == [i \in 1..Len(by_key) |-> dim_profile(by_key[i])]
                 \o NameProfiles(e, names)
        profiles == [i \in 1..Len(found) |-> with_profile_text(found[i])]
    IN  IF ids_or_names.exc # "none" THEN H("ValueError", <<>>, <<>>)
        ELSE IF ids_or_names.val.items = <<>>
        THEN H("none", [profiles |-> <<>>,
                        message |-> "At least one species ID or name required"], <<>>)
        ELSE WithConnection(e, stmts,
                 [profiles |-> profiles, count |-> Len(profiles)])

----------------------------------------------------------------------------
(* lambda_handler.py.  A tool identifier is [lead, name, trail]: the text   *)
(* name with lead slashes before it and trail slashes after it; a text of   *)
(* slashes only has name "" and trail 0.                                    *)

Id(l, nm, t) == [lead |-> l, name |-> nm, trail |-> t]

EmptyId == Id(0, "", 0)

\* a variant that removes one leading slash only
StripSlashes_leading(id) == [id EXCEPT !.lead = IF @ > 0 THEN @ - 1 ELSE 0]

\* s.strip("/")
StripSlashes(id) == Id(0, id.name, 0)

\* "/" + s
WithSlash(id) == [id EXCEPT !.lead = @ + 1]

Tools ==
    {"GetHexMetrics", "GetNeighborHexes", "GetNeighborSummary",
     "GetHexSpeciesContext", "GetOSMContext", "GetInfoAboutThreatenedSpecies",
     "GetSpeciesProfiles"}

LowerCamel ==
    [GetHexMetrics |-> "getHexMetrics", GetNeighborHexes |-> "getNeighborHexes",
     GetNeighborSummary |-> "getNeighborSummary",
     GetHexSpeciesContext |-> "getHexSpeciesContext",
     GetOSMContext |-> "getOSMContext",
     GetInfoAboutThreatenedSpecies |-> "getInfoAboutThreatenedSpecies",
     GetSpeciesProfiles |-> "getSpeciesProfiles"]

QUICK_ACTION_NAMES ==
    {Id(0, "action_group_quick_action1", 0), Id(0, "action_group_quick_action", 0),
     Id(0, "quick_action", 0)}

ToolKeys(t) == {Id(0, t, 0), Id(0, LowerCamel[t], 0), Id(1, LowerCamel[t], 0)}

\* TOOL_HANDLERS.get(key): the tool whose handler the key maps to, else "None"
TOOL_HANDLERS(key) ==
    IF \E t \in Tools : key \in ToolKeys(t)
    THEN CHOOSE t \in Tools : key \in ToolKeys(t)
    ELSE "None"

infer_tool_from_params(params, body) ==
    LET p == params_to_dict(params, body)
        h3_ids == Or(Get(p, "h3_ids"), Get(p, "h3Ids"))
        k_ring == Or(Get(p, "k_ring"), Get(p, "kRing"))
        species_ids == Or(Get(p, "species_ids"), Get(p, "speciesIds"))
        species_names == Or(Get(p, "species_names"), Get(p, "speciesNames"))
        species_ids_or_names ==
            Or(Get(p, "species_ids_or_names"), Get(p, "speciesIdsOrNames"))
        h3_id == Or(Get(p, "h3_id"), Get(p, "h3Id"))
        h3_res == Or(Get(p, "h3_res"), Get(p, "h3Res"))
    IN  CASE h3_ids.k # "none" -> "GetNeighborSummary"
          [] k_ring.k # "none" -> "GetNeighborHexes"
          [] Truthy(species_ids) \/ Truthy(species_names) -> "GetSpeciesProfiles"
          [] Truthy(species_ids_or_names) -> "GetInfoAboutThreatenedSpecies"
          [] Truthy(h3_id) /\ h3_res.k # "none" -> "GetHexMetrics"
          [] OTHER -> "None"

\* a response in the path-based wire shape
build_openapi_response(body, status) ==
    [shape |-> "A", httpStatusCode |-> status, responseState |-> "", body |-> body]

\* a response in the function-based wire shape; responseState "" stands for
\* the field being left out
build_function_response(body, state) ==
    [shape |-> "B", httpStatusCode |-> 0,
     responseState |-> IF state = "SUCCESS" THEN "" ELSE state, body |-> body]

CallHandler(tool, params, body, e) ==
    CASE tool = "GetHexMetrics" -> get_hex_metrics(params, body, e)
      [] tool = "GetNeighborHexes" -> get_neighbor_hexes(params, body, e)
      [] tool = "GetNeighborSummary" -> get_neighbor_summary(params, body, e)
      [] tool = "GetHexSpeciesContext" -> get_hex_species_context(params, body, e)
      [] tool = "GetOSMContext" -> get_osm_context(params, body, e)
      [] tool = "GetInfoAboutThreatenedSpecies" ->
            get_info_about_threatened_species(params, body, e)
      [] tool = "GetSpeciesProfiles" -> get_species_profiles(params, body, e)

Out(r, called, ops) == [resp |-> r, called |-> called, ops |-> ops]

\* the response to [missing tool, unknown tool] errors returned inside the try
EarlyError(ev, err_body, status) ==
    IF ev.hasFunction
    THEN build_function_response(err_body, "FAILURE")
    ELSE build_openapi_response(err_body, status)

\* the two except clauses
Caught(ev, exc) ==
    LET validation == exc = "ValueError"
        err_body == [error |-> IF validation THEN "ValidationError" ELSE "InternalError",
                     message |-> exc]
    IN  IF ev.hasFunction /\ ev.function # EmptyId
        THEN build_function_response(err_body,
                 IF validation THEN "REPROMPT" ELSE "FAILURE")
        ELSE build_openapi_response(err_body, IF validation THEN 400 ELSE 500)

lambda_handler(ev, e) ==
    LET raw == IF ev.hasApiPath THEN ev.apiPath ELSE EmptyId
        api_path == IF StripSlashes(raw) # EmptyId THEN StripSlashes(raw) ELSE raw
        func_name == IF ev.hasFunction THEN ev.function ELSE EmptyId
        tool_key == IF api_path # EmptyId THEN api_path ELSE func_name
        params == ev.parameters
        body == ev.requestBody
        quick == tool_key \in QUICK_ACTION_NAMES
        inferred == infer_tool_from_params(params, body)
        key == IF quick THEN Id(0, inferred, 0) ELSE tool_key
        handler_fn == IF TOOL_HANDLERS(key) # "None" THEN TOOL_HANDLERS(key)
                      ELSE TOOL_HANDLERS(WithSlash(key))
        Answer(result) ==
            IF result.exc # "none"
            THEN Out(Caught(ev, result.exc), handler_fn, result.ops)
            ELSE Out(IF ev.hasFunction
                     THEN build_function_response(result.body, "SUCCESS")
                     ELSE build_openapi_response(result.body, 200),
                     handler_fn, result.ops)
    IN  IF tool_key = EmptyId
        THEN Out(EarlyError(ev, [error |-> "Missing apiPath or function",
                                 message |-> "Invalid invocation"], 400),
                 "None", <<>>)
        ELSE IF quick /\ inferred = "None"
        THEN Out(EarlyError(ev, [error |-> "Unknown tool", tool |-> tool_key,
                                 message |-> "Could not infer tool from parameters"],
                            404),
                 "None", <<>>)
        ELSE IF handler_fn = "None"
        THEN Out(EarlyError(ev, [error |-> "Unknown tool", tool |-> key], 404),
                 "None", <<>>)
        ELSE Answer(CallHandler(handler_fn, params, body, e))

----------------------------------------------------------------------------
(* Bounded inputs *)

MaxFill == 22

MaxCellFill == 102

MaxSlashes == 2

IntSamples == {-3, 0, 1, 2, 3, 4, 5, 6, 7, 9, 10, 12, 24, 60, 61}

Blank == PyStr("", 0, 1)

Word(i) == PyStr("word", i, 0)

Num(i) == PyStr("num", i, 0)

Cell(res, pos) == PyStr("cell", res * CellBase + pos, 0)

HexJunk == PyStr("hex", 1, 0)

\* what a scalar parameter may be given as
ScalarValues ==
    {PyInt(i) : i \in IntSamples}
    \cup {PyStr("num", i, pd) : i \in IntSamples, pd \in {0, 1}}
    \cup {EmptyStr, Blank, Word(1), PyList(<<>>)}

Fill(m) == [i \in 1..m |-> Word(i)]

CellFill(m) == [i \in 1..m |-> Cell(7, i)]

SpeciesHeads ==
    {<<>>, <<Blank>>, <<PyStr("word", 1, 1)>>, <<Num(5)>>, <<PyInt(5)>>, <<EmptyStr, Word(1)>>}

SpeciesLists == {h \o Fill(m) : h \in SpeciesHeads, m \in 0..MaxFill}

\* what a species parameter may be given as
SpeciesValues ==
    {PyList(xs) : xs \in SpeciesLists}
    \cup {PyText("csv", xs, 0) : xs \in {ys \in SpeciesLists : Len(ys) >= 2}}
    \cup {PyText("json", xs, 0) : xs \in SpeciesLists}
    \cup {PyNone, EmptyStr, Blank, Word(1), Num(5), Num(0), PyInt(5)}

CellHeads ==
    {<<>>, <<HexJunk>>, <<Blank>>, <<Word(1)>>, <<Cell(7, 1)>>,
     <<PyStr("cell", 7 * CellBase + 1, 1), HexJunk, Cell(7, 1)>>}

CellLists == {h \o CellFill(m) : h \in CellHeads, m \in 0..MaxCellFill}

\* what a cell list parameter may be given as
CellListValues ==
    {PyList(xs) : xs \in CellLists}
    \cup {PyNone, EmptyStr, Blank, Cell(7, 1), HexJunk, PyInt(5)}

Ev(hasA, a, hasF, f, params, body) ==
    [hasApiPath |-> hasA, apiPath |-> a, hasFunction |-> hasF, function |-> f,
     parameters |-> params, requestBody |-> body]

\* the two invocation shapes naming one tool
Named(t, params, body) ==
    {Ev(TRUE, Id(1, LowerCamel[t], 0), FALSE, EmptyId, params, body),
     Ev(FALSE, EmptyId, TRUE, Id(0, t, 0), params, body)}

AllNamed(ts, ps) == UNION {Named(t, q, NoBody) : t \in ts, q \in ps}

OneCell == "h3_id" :> Cell(7, 1)

OneCellList == "h3_ids" :> PyList(<<Cell(7, 1)>>)

\* resolution and ring size given in every way
ResolutionEvents ==
    AllNamed(Tools \ {"GetSpeciesProfiles"},
             {(key :> v) @@ OneCell @@ OneCellList :
                 key \in {"h3_res", "h3Res"}, v \in ScalarValues})
    \cup AllNamed({"GetNeighborHexes"},
             {(key :> v) @@ r @@ ("h3_id" :> Cell(9, 50)) :
                 key \in {"k_ring", "kRing"}, v \in ScalarValues,
                 r \in {<<>>, "h3_res" :> Num(7), "h3_res" :> Num(9)}})

YearRanges ==
    {<<>>, "time_start" :> Num(2010), ("start_year" :> PyInt(2015)) @@ ("end_year" :> Num(2020)),
     "time_end" :> Word(1)}

MonthsEvents ==
    AllNamed({"GetHexMetrics"},
             {("last_n_months" :> v) @@ y @@ OneCell @@ ("h3_res" :> Num(7)) :
                 v \in ScalarValues, y \in YearRanges})

SpeciesKeys ==
    {"species_ids", "species_names", "speciesIds", "speciesNames",
     "species_ids_or_names", "speciesIdsOrNames"}

SpeciesEvents ==
    AllNamed({"GetSpeciesProfiles", "GetInfoAboutThreatenedSpecies"},
             {<<>>} \cup {key :> v : key \in SpeciesKeys, v \in SpeciesValues})

\* for each rule of the quick-action inference: its keys absent, present
\* with an empty value, present with a value
QuickChoices ==
    <<{<<>>, "h3_ids" :> PyList(<<>>), "h3_ids" :> PyList(<<Cell(7, 1)>>),
       "h3Ids" :> PyList(<<Cell(7, 1)>>),
       ("h3_ids" :> PyList(<<>>)) @@ ("h3Ids" :> PyList(<<>>))},
      {<<>>, "k_ring" :> PyInt(0), "k_ring" :> Num(2)},
      {<<>>, "species_ids" :> PyList(<<>>), "speciesIds" :> PyList(<<Num(5)>>)},
      {<<>>, "species_names" :> PyList(<<Word(1)>>)},
      {<<>>, "species_ids_or_names" :> EmptyStr, "species_ids_or_names" :> Word(1)},
      {<<>>, "h3_id" :> Cell(7, 1)},
      {<<>>, "h3_res" :> PyInt(0), "h3_res" :> Num(7)}>>

QuickParams ==
    {a @@ b @@ c @@ d @@ f @@ g @@ h :
        a \in QuickChoices[1], b \in QuickChoices[2], c \in QuickChoices[3],
        d \in QuickChoices[4], f \in QuickChoices[5], g \in QuickChoices[6],
        h \in QuickChoices[7]}

QuickEvents ==
    {Ev(FALSE, EmptyId, TRUE, Id(0, "action_group_quick_action1", 0), q, NoBody) :
        q \in QuickParams}
    \cup {Ev(TRUE, Id(1, "quick_action", 0), FALSE, EmptyId, q, NoBody) :
        q \in {r \in QuickParams : Cardinality(DOMAIN r) <= 2}}

\* parameters with which every tool gets past its validation
GoodParams ==
    OneCell @@ OneCellList @@ ("h3_res" :> Num(7)) @@ ("k_ring" :> Num(2))
    @@ ("species_names" :> PyList(<<Word(1)>>))

IdNames ==
    Tools \cup {LowerCamel[t] : t \in Tools}
    \cup {"action_group_quick_action1", "action_group_quick_action", "quick_action",
          "getFoo"}

Ids ==
    {Id(l, nm, t) : l \in 0..MaxSlashes, nm \in IdNames, t \in 0..1}
    \cup {Id(l, "", 0) : l \in 0..MaxSlashes}

\* tool identifiers of every form, alone and beside a second identifier
RoutingEvents ==
    {Ev(TRUE, a, FALSE, EmptyId, GoodParams, NoBody) : a \in Ids}
    \cup {Ev(FALSE, EmptyId, TRUE, f, GoodParams, NoBody) : f \in Ids}
    \cup {Ev(TRUE, a, TRUE, f, q, NoBody) :
            a \in Ids, f \in {EmptyId, Id(0, "GetOSMContext", 0)},
            q \in {GoodParams, <<>>}}
    \cup {Ev(TRUE, a, TRUE, f, GoodParams, NoBody) :
            a \in {EmptyId, Id(1, "", 0)}, f \in Ids}
    \cup {Ev(FALSE, EmptyId, FALSE, EmptyId, q, NoBody) : q \in {GoodParams, <<>>}}

\* properties given in the request body, as a list and as a mapping
BodyEvents ==
    UNION {Named(t, q, [kind |-> bk, props |-> pr]) :
             t \in Tools, q \in {GoodParams, <<>>}, bk \in {"list", "dict"},
             pr \in {"h3_res" :> Num(9), "h3_res" :> Num(5), GoodParams}}

Events ==
    ResolutionEvents \cup MonthsEvents \cup SpeciesEvents \cup QuickEvents
    \cup RoutingEvents \cup BodyEvents

NoRows ==
    [cell_metrics |-> <<>>, osm_hex_features |-> <<>>, species_h3_mapping |-> <<>>,
     iucn_species_profiles |-> <<>>, species_dim |-> <<>>]

EnvOk ==
    [creds |-> TRUE, connect |-> TRUE, query |-> TRUE, hexSpecies |-> <<>>] @@ NoRows

Envs ==
    {e @@ NoRows :
        e \in [creds : BOOLEAN, connect : BOOLEAN, query : BOOLEAN,
               hexSpecies : {<<>>, <<Word(1)>>, <<EmptyStr, Word(2), Word(3)>>}]}

\* every tool in both shapes, run in every environment
EnvEvents == AllNamed(Tools, {GoodParams, OneCell @@ ("h3_res" :> Num(7))})

(* Database contents *)

Float(i) == PyFloat("num", i)

\* a row of gbif_cell_metrics
MetricsRow(cell, year, rich, thr, dqi, score) ==
    [h3_index |-> cell, h3_resolution |-> PyInt(cell.n \div CellBase),
     year |-> PyInt(year), species_richness_cell |-> rich,
     n_threatened_species |-> thr, dqi |-> dqi, threat_score_weighted |-> score]

\* two years of one cell stored latest first, beside other cells
MetricsTwoYears ==
    <<MetricsRow(Cell(7, 1), 2024, PyInt(15), PyInt(1), Float(7500), Float(25000)),
      MetricsRow(Cell(7, 2), 2024, PyInt(40), PyInt(4), Float(9000), Float(40000)),
      MetricsRow(Cell(7, 1), 2023, PyInt(10), PyInt(2), Float(5000), Float(12500)),
      MetricsRow(Cell(8, 3), 2024, PyInt(3), PyInt(0), Float(1000), PyNone)>>

\* years with missing and not-a-number values
MetricsWithGaps ==
    <<MetricsRow(Cell(7, 1), 2022, PyNone, PyInt(3), Float(2500), PyNone),
      MetricsRow(Cell(7, 1), 2024, Float(150000), PyNone, NaN, Float(10000)),
      MetricsRow(Cell(7, 1), 2020, NaN, NaN, NaN, NaN),
      MetricsRow(Cell(7, 2), 2024, NaN, PyInt(2), PyNone, NaN),
      MetricsRow(Cell(7, 3), 2024, PyInt(7), PyInt(1), Float(3333), Float(5000))>>

MetricsOneYear ==
    <<MetricsRow(Cell(7, 1), 2025, PyInt(12), PyNone, Float(6000), Float(100))>>

\* a row of osm_hex_features
OsmRow(cell, roads, ports, protected) ==
    [h3_index |-> cell, h3_resolution |-> PyInt(cell.n \div CellBase),
     road_density |-> roads, n_ports |-> ports, protected_area |-> protected]

OsmRows ==
    <<OsmRow(Cell(7, 2), Float(1), PyInt(1), PyBool(FALSE)),
      OsmRow(Cell(7, 1), NaN, PyNone, PyBool(TRUE)),
      OsmRow(Cell(8, 3), Float(12345), PyInt(0), PyNone)>>

\* a row of gbif_species_h3_mapping joined to gbif_species_dim
MappingRow(cell, year, key, occ, thr, inv, name) ==
    [h3_index |-> cell, h3_resolution |-> PyInt(cell.n \div CellBase),
     year |-> PyInt(year), taxon_key |-> PyInt(key), occurrence_count |-> occ,
     is_threatened |-> thr, is_invasive |-> inv, species_name |-> name]

MappingRows ==
    <<MappingRow(Cell(7, 1), 2024, 1, PyInt(5), PyBool(TRUE), PyBool(FALSE), Word(1)),
      MappingRow(Cell(7, 1), 2024, 2, NaN, PyBool(TRUE), PyBool(TRUE), Word(2)),
      MappingRow(Cell(7, 1), 2024, 1, PyInt(9), PyBool(TRUE), PyBool(FALSE), Word(1)),
      MappingRow(Cell(7, 1), 2024, 3, PyNone, PyNone, PyBool(TRUE), Word(3)),
      MappingRow(Cell(7, 1), 2024, 3, PyInt(4), PyBool(TRUE), PyBool(TRUE), Word(3)),
      MappingRow(Cell(7, 1), 2023, 4, PyInt(8), PyBool(FALSE), PyBool(FALSE), Word(4)),
      MappingRow(Cell(7, 2), 2025, 1, PyInt(2), PyBool(FALSE), PyBool(FALSE), Word(1))>>

\* a row of iucn_species_profiles
IucnRow(name, category, rationale) ==
    [scientific_name |-> name, iucn_category |-> category, rationale |-> rationale,
     habitat_ecology |-> PyNone, threats_text |-> EmptyStr,
     conservation_text |-> PyStr("text", 1, 0)]

IucnRows ==
    <<IucnRow(PyStr("WORD", 1, 0), PyStr("category", 1, 0), PyStr("text", 2, 0)),
      IucnRow(Word(2), PyNone, PyNone),
      IucnRow(Word(1), PyStr("category", 2, 0), PyNone)>>

\* a row of gbif_species_dim
DimRow(key, name, occ, thr, inv) ==
    [taxon_key |-> PyInt(key), species_name |-> name, occurrence_count |-> occ,
     is_threatened |-> thr, is_invasive |-> inv]

DimRows ==
    <<DimRow(5, Word(13), PyInt(7), PyBool(TRUE), PyNone),
      DimRow(5, Word(13), PyInt(9), PyBool(FALSE), PyBool(FALSE)),
      DimRow(6, PyStr("WORD", 34, 0), NaN, PyNone, PyBool(TRUE)),
      DimRow(7, Word(3), PyNone, PyBool(FALSE), PyBool(FALSE))>>

Database(metrics, osm, mapping, iucn, dim, names) ==
    [creds |-> TRUE, connect |-> TRUE, query |-> TRUE, hexSpecies |-> names,
     cell_metrics |-> metrics, osm_hex_features |-> osm,
     species_h3_mapping |-> mapping, iucn_species_profiles |-> iucn,
     species_dim |-> dim]

Databases ==
    {Database(m, OsmRows, MappingRows, IucnRows, DimRows, <<Word(1), Word(2)>>) :
        m \in {MetricsTwoYears, MetricsWithGaps, MetricsOneYear}}

\* parameters that reach the rows of every table
DbParams ==
    {("h3_id" :> c) @@ ("h3_ids" :> PyList(cs)) @@ ("h3_res" :> r) @@ y :
        c \in {Cell(7, 1), PyStr("cell", 7 * CellBase + 1, 1), Cell(8, 3), Cell(7, 4)},
        cs \in {<<Cell(7, 1), Cell(7, 2)>>, <<Cell(7, 3), Cell(7, 2), Cell(7, 1)>>},
        r \in {Num(7), PyInt(8), Num(6), PyInt(9)},
        y \in {<<>>, "year" :> Num(2024), "last_n_months" :> Num(12),
               "last_n_months" :> PyInt(36),
               ("start_year" :> PyInt(2023)) @@ ("end_year" :> Num(2024))}}

SpeciesRequests ==
    {<<Word(1)>>, <<PyStr("WORD", 2, 0), Word(5)>>, <<Word(3), Num(5)>>,
     <<Num(9), Word(4)>>, <<Num(6), Num(5), PyStr("word", 1, 1)>>}

DbSpeciesParams ==
    {key :> PyList(xs) :
        key \in {"species_names", "species_ids_or_names"}, xs \in SpeciesRequests}

\* every tool in both shapes, run against every database
DbEvents ==
    AllNamed(Tools \ {"GetSpeciesProfiles"}, DbParams)
    \cup AllNamed({"GetSpeciesProfiles", "GetInfoAboutThreatenedSpecies"},
                  DbSpeciesParams)

\* every tool named by apiPath beside a function key that is present but
\* empty, run in every environment
EmptyFunctionEvents ==
    {Ev(TRUE, Id(1, LowerCamel[t], 0), TRUE, EmptyId, q, NoBody) :
        t \in Tools, q \in {GoodParams, <<>>}}

Invocations ==
    (Events \X {EnvOk}) \cup (EnvEvents \X Envs) \cup (DbEvents \X Databases)
    \cup (EmptyFunctionEvents \X Envs)

----------------------------------------------------------------------------
(* The router: an invocation arrives with its environment and is handled   *)
(* in one step; invocations share no state.                                 *)

NoEvent == Ev(FALSE, EmptyId, FALSE, EmptyId, <<>>, NoBody)

NoResp == [shape |-> "", httpStatusCode |-> 0, responseState |-> "", body |-> <<>>]

NoTrace == [called |-> "", ops |-> <<>>]

Unset == [exc |-> "unset", val |-> PyNone]

Idle ==
    /\ event = NoEvent
    /\ env = EnvOk
    /\ resp = NoResp
    /\ trace = NoTrace

\* the map explorer before its first script run: no data, an empty session
\* state, no browser state, nothing rendered
NoSession ==
    /\ gold = <<>>
    /\ ss = <<>>
    /\ browser = <<>>
    /\ page = <<>>

Init ==
    /\ \E x \in Invocations : event = x[1] /\ env = x[2]
    /\ resp = NoResp
    /\ trace = NoTrace
    /\ vfn = ""
    /\ varg = PyNone
    /\ vres = Unset
    /\ NoSession

Invoke ==
    /\ resp = NoResp
    /\ \E out \in {lambda_handler(event, env)} :
          /\ resp' = out.resp
          /\ trace' = [called |-> out.called, ops |-> out.ops]
    /\ UNCHANGED <<event, env, validatorVars, explorerVars>>

Next == Invoke

Spec == Init /\ [][Next]_vars

----------------------------------------------------------------------------
(* The validators as pure functions: the argument is drawn, then applied *)

InitV ==
    /\ Idle
    /\ NoSession
    /\ vres = Unset
    /\ \/ vfn = "validate_species_list" /\ varg \in SpeciesValues
       \/ vfn = "validate_h3_id_list" /\ varg \in CellListValues

ApplySpeciesList ==
    /\ vfn = "validate_species_list"
    /\ vres = Unset
    /\ vres' = validate_species_list(varg)
    /\ UNCHANGED <<vfn, varg, routerVars, explorerVars>>

ApplyH3IdList ==
    /\ vfn = "validate_h3_id_list"
    /\ vres = Unset
    /\ vres' = validate_h3_id_list(varg)
    /\ UNCHANGED <<vfn, varg, routerVars, explorerVars>>

NextV == ApplySpeciesList \/ ApplyH3IdList

SpecV == InitV /\ [][NextV]_vars

----------------------------------------------------------------------------
(* Vocabulary of the properties *)

Handled == resp # NoResp

Merged == event.requestBody.props @@ event.parameters

\* the value supplied under a key or its camel-case alias, PyNone when absent
Supplied(snake, camel) ==
    IF snake \in DOMAIN Merged THEN Merged[snake] ELSE Get(Merged, camel)

IsSupplied(snake, camel) == Supplied(snake, camel).k # "none"

IsIntegerIn(v, lo, hi) ==
    /\ v.k = "int" \/ (v.k = "str" /\ v.s = "num")
    /\ lo <= v.n /\ v.n <= hi

Wire(a, b) ==
    \/ resp.shape = "A" /\ resp.httpStatusCode = a
    \/ resp.shape = "B" /\ resp.responseState = b

IsError == resp.httpStatusCode \notin {0, 200} \/ resp.responseState # ""

ErrorKind == IF "error" \in DOMAIN resp.body THEN resp.body.error ELSE ""

ValidationFailure == Wire(400, "REPROMPT") /\ ErrorKind = "ValidationError"

Executed(q) == \E i \in 1..Len(trace.ops) : trace.ops[i].q = q

\* what the called handler does with this input when the database is healthy
Healthy == CallHandler(trace.called, event.parameters, event.requestBody,
                       [env EXCEPT !.creds = TRUE, !.connect = TRUE, !.query = TRUE])

Actual == CallHandler(trace.called, event.parameters, event.requestBody, env)

----------------------------------------------------------------------------
(* C1: status mapping of lambda_handler.  Success gives 200 / no            *)
(* responseState; a validation failure (the input is rejected whatever the  *)
(* state of the database) gives 400 / REPROMPT; an unresolvable tool (no    *)
(* handler is called) gives 404 / FAILURE; any other failure gives          *)
(* 500 / FAILURE.                                                           *)
C1_StatusMapping ==
    Handled =>
        CASE trace.called = "None" -> Wire(404, "FAILURE")
          [] Actual.exc = "none" -> Wire(200, "")
          [] Healthy.exc = "ValueError" -> Wire(400, "REPROMPT")
          [] OTHER -> Wire(500, "FAILURE")

----------------------------------------------------------------------------
\* the invocation names a quick-action placeholder as its tool
IsQuickAction ==
    \/ event.hasApiPath /\ StripSlashes(event.apiPath) \in QUICK_ACTION_NAMES
    \/ /\ ~event.hasApiPath \/ event.apiPath = EmptyId
       /\ event.hasFunction /\ event.function \in QUICK_ACTION_NAMES

Present(snake, camel) == snake \in DOMAIN Merged \/ camel \in DOMAIN Merged

\* the decision table of the quick-action inference, by presence of keys
FirstMatchingRule ==
    CASE Present("h3_ids", "h3Ids") -> "GetNeighborSummary"
      [] Present("k_ring", "kRing") -> "GetNeighborHexes"
      [] Present("species_ids", "speciesIds")
            \/ Present("species_names", "speciesNames") -> "GetSpeciesProfiles"
      [] Present("species_ids_or_names", "speciesIdsOrNames") ->
            "GetInfoAboutThreatenedSpecies"
      [] Present("h3_id", "h3Id") /\ Present("h3_res", "h3Res") -> "GetHexMetrics"
      [] OTHER -> "None"

UnknownToolError == trace.called = "None" /\ Wire(404, "FAILURE") /\ ErrorKind = "Unknown tool"

(* C2: for a quick-action placeholder the tool is picked by the first rule  *)
(* whose key is present (h3_ids, k_ring, species_ids or species_names,      *)
(* species_ids_or_names, h3_id with h3_res), whatever other keys are        *)
(* present; when no rule matches the invocation ends with an                *)
(* unresolvable-tool error and no handler is called.                        *)
C2_QuickActionOrder ==
    (Handled /\ IsQuickAction) =>
        /\ trace.called = FirstMatchingRule
        /\ FirstMatchingRule = "None" => UnknownToolError

----------------------------------------------------------------------------
\* the identifier with one leading path separator removed
WithoutLeadingSlash(id) == IF id.lead > 0 THEN [id EXCEPT !.lead = @ - 1] ELSE id

StaticKeys == UNION {ToolKeys(t) : t \in Tools}

OnlyApiPath == event.hasApiPath /\ event.apiPath # EmptyId /\ ~event.hasFunction

OnlyFunction == event.hasFunction /\ event.function # EmptyId /\ ~event.hasApiPath

Normalised ==
    IF event.hasApiPath /\ event.apiPath # EmptyId
    THEN IF event.apiPath.name = "" THEN event.apiPath
         ELSE Id(0, event.apiPath.name, 0)
    ELSE IF event.hasFunction THEN event.function ELSE EmptyId

----------------------------------------------------------------------------
(* C4: every error response carries a body with an error field naming one   *)
(* of the three error kinds and a message field.                            *)
C4_ErrorBody ==
    (Handled /\ IsError) =>
        /\ ErrorKind \in {"ValidationError", "Unknown tool", "InternalError"}
        /\ "message" \in DOMAIN resp.body

----------------------------------------------------------------------------
ToolsWithResolution == Tools \ {"GetSpeciesProfiles"}

(* C5: an invocation of a tool that takes a resolution or a ring size and   *)
(* supplies an h3_res that is not an integer in 6..9, or a k_ring that is   *)
(* not an integer in 1..3, ends as a validation failure.                    *)
C5_RangeRejected ==
    Handled =>
        /\ /\ trace.called \in ToolsWithResolution
           /\ IsSupplied("h3_res", "h3Res")
           /\ ~IsIntegerIn(Supplied("h3_res", "h3Res"), ResMin, ResMax)
           => ValidationFailure
        /\ /\ trace.called = "GetNeighborHexes"
           /\ IsSupplied("k_ring", "kRing")
           /\ ~IsIntegerIn(Supplied("k_ring", "kRing"), KMin, KMax)
           => ValidationFailure

----------------------------------------------------------------------------
(* C6: a GetHexMetrics invocation whose last_n_months is not an integer in  *)
(* 1..60 ends as a validation failure and runs no metrics query.            *)
C6_MonthsRejected ==
    (/\ Handled
     /\ trace.called = "GetHexMetrics"
     /\ "last_n_months" \in DOMAIN Merged
     /\ Merged["last_n_months"].k # "none"
     /\ ~IsIntegerIn(Merged["last_n_months"], MonthsMin, MonthsMax))
    => (ValidationFailure /\ ~Executed("cell_metrics"))

----------------------------------------------------------------------------
Applied == vres # Unset

NoDuplicates(xs) == \A i, j \in 1..Len(xs) : xs[i] = xs[j] => i = j

\* the entries of a list argument that are well-formed cell ids, trimmed
ValidEntries(xs) ==
    {Strip(xs[i]) : i \in {j \in 1..Len(xs) :
        xs[j].k = "str" /\ xs[j].s = "cell"}}

Elements(xs) == {xs[i] : i \in 1..Len(xs)}

(* C7: for a list of cell ids validate_h3_id_list returns the valid         *)
(* entries without duplicates, malformed entries dropped without raising,   *)
(* and raises only when more than 100 entries are valid.                    *)
C7_DeduplicatedValid ==
    (Applied /\ vfn = "validate_h3_id_list" /\ varg.k = "list") =>
        IF vres.exc = "none"
        THEN /\ Elements(vres.val.items) = ValidEntries(varg.items)
             /\ NoDuplicates(vres.val.items)
        ELSE Cardinality({j \in 1..Len(varg.items) : varg.items[j].s = "cell"})
                 > MaxCells

----------------------------------------------------------------------------
RECURSIVE Trimmed(_)
\* the non-blank entries of a list, trimmed, in order
Trimmed(xs) ==
    IF xs = <<>> THEN <<>>
    ELSE LET x == Head(xs)
             blank == x.k = "str" /\ x.s = ""
             t == IF x.k = "int" THEN Num(x.n) ELSE [x EXCEPT !.pad = 0]
         IN  (IF blank THEN <<>> ELSE <<t>>) \o Trimmed(Tail(xs))

Entries == IF varg.k = "str" THEN <<varg>> ELSE varg.items

(* C8: validate_species_list returns all non-blank entries, trimmed and in  *)
(* input order, when there are between 1 and 20 of them, and raises a       *)
(* validation error when there are 21 or more; it never truncates.          *)
C8_SpeciesCap ==
    (Applied /\ vfn = "validate_species_list" /\ varg.k \in {"str", "list"}) =>
        LET want == Trimmed(Entries)
        IN  /\ (1 <= Len(want) /\ Len(want) <= 20) =>
                  (vres.exc = "none" /\ vres.val.items = want)
            /\ Len(want) >= 21 => vres.exc = "ValueError"

\* 20 names are returned from a longer list that also held a blank entry
C8_Witness ==
    /\ Applied /\ vfn = "validate_species_list"
    /\ vres.exc = "none"
    /\ Len(vres.val.items) = 20
    /\ Len(varg.items) = 21

\* 21 names are rejected
C8_WitnessRejected ==
    /\ Applied /\ vfn = "validate_species_list"
    /\ vres.exc = "ValueError"
    /\ Len(Trimmed(Entries)) = 21

----------------------------------------------------------------------------
SpeciesGiven ==
    {Get(Merged, key) : key \in {"species_ids", "species_names", "speciesIds",
                                 "speciesNames"}}

YieldsNoEntry(v) ==
    \/ v.k = "none"
    \/ v.k = "list" /\ Trimmed(v.items) = <<>>
    \/ v.k = "str" /\ v.s = ""

(* C9: a GetSpeciesProfiles invocation whose species parameters yield no    *)
(* entry (absent, an empty list, only blank strings) ends as a validation   *)
(* failure.                                                                 *)
C9_EmptySpeciesRejected ==
    (/\ Handled
     /\ trace.called = "GetSpeciesProfiles"
     /\ \A v \in SpeciesGiven : YieldsNoEntry(v))
    => ValidationFailure

----------------------------------------------------------------------------
\* the number of species identifiers a parameter value supplies
SpeciesCount(v) ==
    CASE v.k = "list" -> Len(Trimmed(v.items))
      [] v.k = "str" /\ v.s \in {"csv", "json"} -> Len(Trimmed(v.items))
      [] v.k = "str" /\ v.s # "" -> 1
      [] OTHER -> 0

\* the species parameter the called tool reads
SpeciesArgument ==
    IF trace.called = "GetSpeciesProfiles"
    THEN Or(Or(Or(Get(Merged, "species_ids"), Get(Merged, "species_names")),
               Get(Merged, "speciesIds")), Get(Merged, "speciesNames"))
    ELSE Or(Get(Merged, "species_ids_or_names"), Get(Merged, "speciesIdsOrNames"))

(* C10: an invocation of GetSpeciesProfiles or                              *)
(* GetInfoAboutThreatenedSpecies that supplies more than 20 species         *)
(* identifiers ends as a validation failure and runs no profile query.      *)
C10_SpeciesCapEverywhere ==
    (/\ Handled
     /\ trace.called \in {"GetSpeciesProfiles", "GetInfoAboutThreatenedSpecies"}
     /\ SpeciesCount(SpeciesArgument) > MaxSpecies)
    => /\ ValidationFailure
       /\ ~Executed("iucn_profiles") /\ ~Executed("iucn_exact")
       /\ ~Executed("species_dim_by_key") /\ ~Executed("species_dim_like")

----------------------------------------------------------------------------
Succeeded == Handled /\ trace.called # "None" /\ Wire(200, "")

\* the invocation supplies a well-formed cell id, without surrounding blanks
ValidCellSupplied ==
    LET c == Supplied("h3_id", "h3Id")
    IN  c.k = "str" /\ c.s = "cell" /\ c.pad = 0

ResolutionRequested == IsIntegerIn(Supplied("h3_res", "h3Res"), ResMin, ResMax)

(* C11: a successful GetHexMetrics response for a valid cell id and a       *)
(* requested resolution in 6..9 carries that cell id as h3_id and that      *)
(* resolution as h3_resolution; when the query returns no rows the body is  *)
(* exactly {h3_id, h3_resolution, metrics: [], trend: null}, and an         *)
(* invocation by apiPath against a healthy database gets it in the shape-A  *)
(* envelope with httpStatusCode 200.                                        *)
C11_MetricsEcho ==
    (/\ Handled /\ trace.called = "GetHexMetrics"
     /\ ValidCellSupplied /\ ResolutionRequested)
    => /\ Succeeded =>
           /\ resp.body.h3_id = Supplied("h3_id", "h3Id")
           /\ resp.body.h3_resolution = Supplied("h3_res", "h3Res").n
           /\ resp.body.metrics = <<>> =>
                 resp.body = [h3_id |-> Supplied("h3_id", "h3Id"),
                              h3_resolution |-> Supplied("h3_res", "h3Res").n,
                              metrics |-> <<>>, trend |-> PyNone]
       /\ (env.creds /\ env.connect /\ env.query /\ ~event.hasFunction) =>
             (resp.shape = "A" /\ resp.httpStatusCode = 200)

\* resolution 9 is requested of a database that holds rows of other
\* resolutions only: no rows, answered in shape A
C11_Witness ==
    /\ Succeeded /\ trace.called = "GetHexMetrics"
    /\ ValidCellSupplied /\ Supplied("h3_res", "h3Res") = PyInt(9)
    /\ env.cell_metrics # <<>>
    /\ resp.shape = "A" /\ resp.body.h3_resolution = 9
    /\ resp.body.metrics = <<>>

----------------------------------------------------------------------------
\* the rows of a successful GetHexMetrics response
MetricsReturned ==
    IF Succeeded /\ trace.called = "GetHexMetrics" THEN resp.body.metrics ELSE <<>>

\* the returned row of the earliest year, and of the latest
Earliest ==
    CHOOSE r \in Elements(MetricsReturned) :
        \A q \in Elements(MetricsReturned) : r.year.n <= q.year.n

Latest ==
    CHOOSE r \in Elements(MetricsReturned) :
        \A q \in Elements(MetricsReturned) : r.year.n >= q.year.n

\* a column value as a number in units of 1 / Scale, a missing one as 0
ValueOrZero(v) == IF v.k = "none" \/ v.s = "nan" THEN 0 ELSE Fixed(v)

(* C12: in a successful GetHexMetrics response the trend is null when       *)
(* fewer than two year rows are returned; otherwise species_richness_change *)
(* and threatened_change are the value of the latest-year row minus the     *)
(* value of the earliest-year row, a missing value counted as 0.            *)
C12_Trend ==
    (Succeeded /\ trace.called = "GetHexMetrics") =>
        IF Len(MetricsReturned) < 2 THEN resp.body.trend = PyNone
        ELSE /\ resp.body.trend # PyNone
             /\ Fixed(resp.body.trend.species_richness_change) =
                    ValueOrZero(Latest.species_richness_cell)
                    - ValueOrZero(Earliest.species_richness_cell)
             /\ Fixed(resp.body.trend.threatened_change) =
                    ValueOrZero(Latest.n_threatened_species)
                    - ValueOrZero(Earliest.n_threatened_species)

\* richness 10 -> 15 and threatened 2 -> 1 over two years, stored latest first
C12_Witness ==
    /\ Succeeded /\ trace.called = "GetHexMetrics"
    /\ env.cell_metrics = MetricsTwoYears
    /\ Len(resp.body.metrics) = 2
    /\ resp.body.trend.species_richness_change = PyInt(5)
    /\ resp.body.trend.threatened_change = PyInt(-1)

\* a trend over rows with missing and not-a-number values
C12_WitnessGaps ==
    /\ Succeeded /\ trace.called = "GetHexMetrics"
    /\ env.cell_metrics = MetricsWithGaps
    /\ Len(resp.body.metrics) = 3
    /\ resp.body.trend.species_richness_change = Float(150000)
    /\ resp.body.trend.threatened_change = PyInt(0)

----------------------------------------------------------------------------
\* the parameter mapping GetNeighborHexes builds from the event
Seen == ParseParamsListOnly(event.parameters, event.requestBody)

SeenValue(snake, camel) ==
    IF snake \in DOMAIN Seen THEN Seen[snake] ELSE Get(Seen, camel)

\* the handler is given a valid cell, a resolution in 6..9 and a ring size
\* in 1..3
RingRequest ==
    /\ Handled /\ trace.called = "GetNeighborHexes"
    /\ LET c == SeenValue("h3_id", "h3Id")
       IN  c.k = "str" /\ c.s = "cell" /\ c.pad = 0
    /\ IsIntegerIn(SeenValue("h3_res", "h3Res"), ResMin, ResMax)
    /\ IsIntegerIn(SeenValue("k_ring", "kRing"), KMin, KMax)

NeighborsReturned ==
    IF Succeeded /\ trace.called = "GetNeighborHexes"
    THEN resp.body.neighbor_h3_ids ELSE <<>>

\* a second invocation with the same cell, resolution and ring size and
\* nothing else
SameRequestAgain ==
    get_neighbor_hexes(("h3_id" :> SeenValue("h3_id", "h3Id"))
                       @@ ("h3_res" :> PyInt(SeenValue("h3_res", "h3Res").n))
                       @@ ("k_ring" :> PyInt(SeenValue("k_ring", "kRing").n)),
                       NoBody, EnvOk)

(* C13: for a valid cell, a resolution in 6..9 and a ring size in 1..3,     *)
(* GetNeighborHexes succeeds with neighbor_h3_ids in ascending order,       *)
(* without duplicates and without the centre cell; neighbor_count is the    *)
(* length of the list; and a second invocation with the same cell,          *)
(* resolution and ring size yields the same neighbor_set_id.                *)
C13_NeighborList ==
    RingRequest
    => /\ Succeeded
       /\ \A i, j \in 1..Len(NeighborsReturned) :
              i < j => NeighborsReturned[i].n < NeighborsReturned[j].n
       /\ NoDuplicates(NeighborsReturned)
       /\ resp.body.h3_id \notin Elements(NeighborsReturned)
       /\ SeenValue("h3_id", "h3Id") \notin Elements(NeighborsReturned)
       /\ resp.body.neighbor_count = Len(NeighborsReturned)
       /\ resp.body.neighbor_set_id = SameRequestAgain.body.neighbor_set_id

\* ring size 2 in the function-call shape: the 18 cells around the centre
C13_Witness ==
    /\ RingRequest /\ Succeeded
    /\ SeenValue("k_ring", "kRing").n = 2
    /\ event.hasFunction
    /\ resp.body.neighbor_count = 18
    /\ resp.body.neighbor_h3_ids[1].n < resp.body.neighbor_h3_ids[18].n

OwnResolution == H3GetResolution(SeenValue("h3_id", "h3Id")).val.n

(* C14: when the supplied cell's own resolution differs from the requested  *)
(* resolution, GetNeighborHexes succeeds and the returned h3_id and every   *)
(* returned neighbour are cells of the requested resolution.                *)
C14_ResolutionCorrected ==
    (RingRequest /\ OwnResolution # SeenValue("h3_res", "h3Res").n)
    => /\ Succeeded
       /\ H3GetResolution(resp.body.h3_id).val.n = resp.body.h3_resolution
       /\ \A c \in Elements(NeighborsReturned) :
              H3GetResolution(c).val.n = resp.body.h3_resolution

\* the requested resolution is coarser than the cell's: the cell is replaced
\* by its parent
C14_Coarser ==
    (RingRequest /\ OwnResolution > SeenValue("h3_res", "h3Res").n)
    => /\ Succeeded
       /\ H3GetResolution(resp.body.h3_id).val.n = resp.body.h3_resolution
       /\ \A c \in Elements(NeighborsReturned) :
              H3GetResolution(c).val.n = resp.body.h3_resolution

C14_CoarserWitness ==
    /\ RingRequest /\ OwnResolution > SeenValue("h3_res", "h3Res").n
    /\ Succeeded
    /\ resp.body.h3_id = cell_to_parent(SeenValue("h3_id", "h3Id"),
                                        resp.body.h3_resolution).val

----------------------------------------------------------------------------
(* json.dumps(body) writes the token NaN for every not-a-number float the   *)
(* body holds, at any depth.  The body fields that hold rows, mappings of   *)
(* columns and single values are told apart by name.                        *)

IsNaN(v) == v.k = "float" /\ v.s = "nan"

RowFields ==
    {"metrics", "top_risky_neighbors", "top_species", "threatened_species",
     "invasive_species", "threatened_species_info", "profiles"}

DictFields == {"summary", "trend", "osm_context"}

ValueFields == {"h3_id", "year"}

\* the entries of a not-found profile that are not column values
Literals == {"found", "message"}

NaNInDict(d) ==
    IF "k" \in DOMAIN d THEN IsNaN(d)
    ELSE \E c \in DOMAIN d \ Literals : IsNaN(d[c])

NaNInBody(body) ==
    \/ \E f \in DOMAIN body \cap RowFields :
           \E i \in 1..Len(body[f]) : NaNInDict(body[f][i])
    \/ \E f \in DOMAIN body \cap DictFields : NaNInDict(body[f])
    \/ \E f \in DOMAIN body \cap ValueFields : IsNaN(body[f])

\* a table of the database holds a not-a-number value
NaNStored(table) ==
    \E i \in 1..Len(env[table]) :
        \E c \in DOMAIN env[table][i] : IsNaN(env[table][i][c])

(* C15: whatever the database rows hold (the year columns being integers),  *)
(* the body of every response, in either shape, holds no not-a-number       *)
(* value: every such value of a row has become null.                        *)
C15_NoNaN == Handled => ~NaNInBody(resp.body)

\* a metrics row whose dqi is not-a-number is returned with dqi null, in
\* the function-call shape
C15_Witness ==
    /\ Succeeded /\ trace.called = "GetHexMetrics" /\ event.hasFunction
    /\ \E i \in 1..Len(resp.body.metrics), j \in 1..Len(env.cell_metrics) :
           /\ env.cell_metrics[j].h3_index = resp.body.metrics[i].h3_index
           /\ env.cell_metrics[j].year = resp.body.metrics[i].year
           /\ IsNaN(env.cell_metrics[j].dqi)
           /\ resp.body.metrics[i].dqi = PyNone

\* the road density of the cell is not-a-number and is returned as null, in
\* the HTTP shape
C15_WitnessOsm ==
    /\ Succeeded /\ trace.called = "GetOSMContext" /\ ~event.hasFunction
    /\ NaNStored("osm_hex_features")
    /\ resp.body.osm_context # PyNone
    /\ resp.body.osm_context.road_density = PyNone
    /\ resp.body.h3_id = Cell(7, 1)

----------------------------------------------------------------------------
\* how many operations of one kind the handler performed on the database
CountOps(kind) == Cardinality({i \in 1..Len(trace.ops) : trace.ops[i].op = kind})

(* C16: every invocation of a tool handler opens exactly one database       *)
(* connection, executes between one and three statements on it, and has     *)
(* closed it when the handler returns or raises.                            *)
C16_OneConnection ==
    (Handled /\ trace.called \in Tools)
    => /\ CountOps("connect") = 1
       /\ CountOps("execute") \in 1..3
       /\ CountOps("close") = 1
       /\ trace.ops[1] = OpConnect
       /\ trace.ops[Len(trace.ops)] = OpClose

\* a handler that succeeds without opening a connection
C16_NoConnection ==
    /\ Succeeded /\ trace.called = "GetNeighborHexes"
    /\ CountOps("connect") = 0

\* a handler that opens a second connection after closing the first
C16_TwoConnections ==
    /\ Succeeded /\ trace.called = "GetInfoAboutThreatenedSpecies"
    /\ CountOps("connect") = 2 /\ CountOps("close") = 2

\* a handler that executes more than three statements on its connection
C16_ManyStatements ==
    /\ Succeeded /\ trace.called = "GetSpeciesProfiles"
    /\ CountOps("connect") = 1 /\ CountOps("execute") > 3

\* every connection that was opened has been closed, and before the next one
\* is opened
ConnectionsClosed ==
    Handled =>
        \A i \in 1..Len(trace.ops) :
            trace.ops[i] = OpConnect =>
                \E j \in (i + 1)..Len(trace.ops) :
                    /\ trace.ops[j] = OpClose
                    /\ \A m \in (i + 1)..(j - 1) : trace.ops[m].op = "execute"

----------------------------------------------------------------------------
\* the called handler fails where it would have succeeded against a healthy
\* database, because the credentials are missing or the connection is refused
ConnectionFailure ==
    /\ Handled /\ trace.called \in Tools
    /\ ~env.creds \/ ~env.connect
    /\ Healthy.exc = "none"
    /\ Actual.exc \in {"ValueError", "OperationalError"}

InternalFailure == Wire(500, "FAILURE") /\ ErrorKind = "InternalError"

(* C17: a failure to obtain credentials or to connect is answered with      *)
(* 500 in the HTTP shape and FAILURE in the function-call shape, as an      *)
(* InternalError, never as a validation failure; nothing was executed.      *)
C17_ConnectionFailure ==
    ConnectionFailure
    => InternalFailure /\ ~ValidationFailure /\ CountOps("execute") = 0

\* the connection is refused although the credentials are there
C17_Refused ==
    (ConnectionFailure /\ env.creds)
    => InternalFailure /\ ~ValidationFailure /\ trace.ops = <<>>

C17_RefusedWitness ==
    ConnectionFailure /\ env.creds /\ event.hasFunction /\ resp.responseState = "FAILURE"

\* the credentials are missing and the answer is a validation failure
C17_MissingCredentials ==
    ConnectionFailure /\ ~env.creds /\ ValidationFailure

----------------------------------------------------------------------------
(* streamlit/app.py: the map explorer.  A data frame is the sequence of its *)
(* rows; the empty mapping is <<>>; the centre of a cell is its column and   *)
(* row on the grid of its resolution.                                       *)

DEMO_YEAR == 2024

DEMO_H3_OPTIONS == <<6, 7>>

COLOR_METRICS ==
    <<"species_richness_cell", "observation_count", "shannon_H",
      "simpson_1_minus_D", "n_threatened_species">>

MAX_HEXES_DEFAULT == 20000

\* h3.cell_to_latlng(c)
cell_to_latlng(c) ==
    [lat |-> (c.n % CellBase) \div GridSide, lng |-> (c.n % CellBase) % GridSide]

\* h3.latlng_to_cell(lat, lng, res)
latlng_to_cell(lat, lng, res) == Cell(res, lat * GridSide + lng)

\* pd.to_numeric(v, errors="coerce") then fillna(0)
to_numeric_fillna(v) ==
    IF v.k \in {"int", "float"} /\ v.s # "nan" THEN v ELSE PyInt(0)

\* the first n rows as stored, whatever their values
nlargest_as_stored(df, n, metric) == SubSeq(df, 1, n)

\* df.nlargest(n, metric): the n highest rows, highest first, ties as stored
nlargest(df, n, metric) ==
    SubSeq(OrderBy(df, [i \in 1..Len(df) |-> 0 - Fixed(df[i][metric])]), 1, n)

\* d.get(key, {})
GetDict(d, key) == IF key \in DOMAIN d THEN d[key] ELSE <<>>

\* not d, of a mapping or None
Empty(d) == d = PyNone \/ d = <<>>

prepare_layer(df, color_metric, max_hexes, mode, snapshot_bounds) ==
    LET metric == IF color_metric \in DOMAIN df[1] THEN color_metric
                  ELSE "observation_count"
        num == [i \in 1..Len(df) |->
                   [df[i] EXCEPT ![metric] = to_numeric_fillna(df[i][metric])]]
        sw == GetDict(snapshot_bounds, "_southWest")
        ne == GetDict(snapshot_bounds, "_northEast")
        Inside(r) ==
            LET at == cell_to_latlng(r.h3_index)
            IN  /\ at.lat >= sw.lat /\ at.lat <= ne.lat
                /\ at.lng >= sw.lng /\ at.lng <= ne.lng
        df_vp == SelectSeq(num, Inside)
        was_sampled == Len(num) > max_hexes
    IN  IF df = <<>> THEN [df |-> df, was_sampled |-> FALSE, mode_used |-> mode]
        ELSE IF /\ mode = "viewport_snapshot" /\ ~Empty(snapshot_bounds)
                /\ ~Empty(sw) /\ ~Empty(ne) /\ df_vp # <<>>
        THEN [df |-> df_vp, was_sampled |-> FALSE, mode_used |-> "viewport_snapshot"]
        ELSE [df |-> IF was_sampled THEN nlargest(num, max_hexes, metric) ELSE num,
              was_sampled |-> was_sampled, mode_used |-> "top_n"]

\* ss.setdefault(key, value)
setdefault(d, key, value) == IF key \in DOMAIN d THEN d ELSE (key :> value) @@ d

\* main, the session state defaults
session_defaults(s) ==
    setdefault(setdefault(setdefault(setdefault(setdefault(s,
        "selected_cell", PyNone), "prev_h3_res", PyNone), "prev_year", PyNone),
        "view_mode", "top_n"), "snapshot_bounds", PyNone)

\* the year-change block resetting the view mode whenever the resolution
\* changes as well
main_session_state_on_any_change(s, selected_year, h3_res) ==
    LET d == session_defaults(s)
    IN  IF selected_year # d.prev_year \/ h3_res # d.prev_h3_res
        THEN [d EXCEPT !.selected_cell = PyNone, !.view_mode = "top_n",
                       !.snapshot_bounds = PyNone, !.prev_year = selected_year,
                       !.prev_h3_res = h3_res]
        ELSE d

\* main, from the session state defaults to the tracking of the resolution:
\* the session state as the data is loaded
main_session_state(s, selected_year, h3_res) ==
    LET d == session_defaults(s)
        r == IF selected_year # d.prev_year
             THEN [d EXCEPT !.selected_cell = PyNone, !.view_mode = "top_n",
                            !.snapshot_bounds = PyNone, !.prev_year = selected_year]
             ELSE d
    IN  [r EXCEPT !.prev_h3_res = h3_res]

(* Inputs of prepare_layer *)

MaxCap == 3

MaxLat == 2

\* a row of a gold partition
GoldRow(cell, year, observations, richness) ==
    [h3_index |-> cell, h3_resolution |-> cell.n \div CellBase, year |-> year,
     observation_count |-> observations, species_richness_cell |-> richness]

\* the bounds the map widget reports
Box(lat_min, lng_min, lat_max, lng_max) ==
    ("_southWest" :> [lat |-> lat_min, lng |-> lng_min])
    @@ ("_northEast" :> [lat |-> lat_max, lng |-> lng_max])

Boxes ==
    {Box(a, 0, b, 1) : a \in 0..MaxLat, b \in 0..MaxLat} \cup {Box(0, 1, MaxLat, 1)}

Modes == {"top_n", "request_bounds", "viewport_snapshot"}

\* partitions: cells on the lines lat = 0 and lat = 1, stored in no order
Frame6 ==
    <<GoldRow(Cell(6, 0), DEMO_YEAR, PyInt(5), PyInt(2)),
      GoldRow(Cell(6, GridSide + 1), DEMO_YEAR, PyInt(9), NaN),
      GoldRow(Cell(6, 1), DEMO_YEAR, PyInt(7), PyInt(4)),
      GoldRow(Cell(6, GridSide), DEMO_YEAR, PyInt(9), PyInt(3))>>

Frame7 ==
    <<GoldRow(Cell(7, 1), DEMO_YEAR, PyNone, PyInt(1)),
      GoldRow(Cell(7, 0), DEMO_YEAR, PyFloat("num", 25000), PyInt(6))>>

Frames == {<<>>, Frame6, Frame7}

LayerInputs ==
    [df : Frames, color_metric : {COLOR_METRICS[i] : i \in 1..3},
     max_hexes : 1..MaxCap, mode : Modes,
     snapshot_bounds : Boxes \cup {PyNone, "_southWest" :> [lat |-> 0, lng |-> 0]}]

InitLayer ==
    /\ Idle
    /\ NoSession
    /\ vfn = "prepare_layer"
    /\ varg \in LayerInputs
    /\ vres = Unset

ApplyPrepareLayer ==
    /\ vfn = "prepare_layer"
    /\ vres = Unset
    /\ vres' = prepare_layer(varg.df, varg.color_metric, varg.max_hexes,
                             varg.mode, varg.snapshot_bounds)
    /\ UNCHANGED <<vfn, varg, routerVars, explorerVars>>

NextLayer == ApplyPrepareLayer

SpecLayer == InitLayer /\ [][NextLayer]_vars

----------------------------------------------------------------------------
LayerPrepared == vfn = "prepare_layer" /\ vres # Unset

CellsOf(df) == [i \in 1..Len(df) |-> df[i].h3_index]

\* the bounds are a captured box, both corners present
BoxCaptured == varg.snapshot_bounds \in Boxes

\* the chosen metric is a column of the loaded data
MetricLoaded == varg.df # <<>> => varg.color_metric \in DOMAIN varg.df[1]

InsideBox(c) ==
    LET at == cell_to_latlng(c)
        box == varg.snapshot_bounds
    IN  /\ box["_southWest"].lat <= at.lat /\ at.lat <= box["_northEast"].lat
        /\ box["_southWest"].lng <= at.lng /\ at.lng <= box["_northEast"].lng

\* the loaded cells whose centre lies within the captured bounds
CellsInside == SelectSeq(CellsOf(varg.df), InsideBox)

\* the value of a loaded row by the chosen metric, a missing value being 0
ValueOf(r) ==
    LET v == r[varg.color_metric]
    IN  IF v.k \in {"int", "float"} /\ v.s # "nan" THEN Fixed(v) ELSE 0

Min(a, b) == IF a <= b THEN a ELSE b

\* the layer is the max_hexes highest-valued loaded cells, all of them when
\* there are no more than max_hexes
LayerIsTopN ==
    LET shown == Elements(CellsOf(vres.df))
    IN  /\ Len(vres.df) = Min(varg.max_hexes, Len(varg.df))
        /\ NoDuplicates(CellsOf(vres.df))
        /\ shown \subseteq Elements(CellsOf(varg.df))
        /\ \A i, j \in 1..Len(varg.df) :
               (varg.df[i].h3_index \in shown /\ varg.df[j].h3_index \notin shown)
               => ValueOf(varg.df[i]) >= ValueOf(varg.df[j])

LayerIsInside == CellsOf(vres.df) = CellsInside

\* the claim as stated: in viewport_snapshot the layer is exactly the cells
\* inside the captured bounds, in the other modes the top max_hexes cells
C20_LayerAsStated ==
    (LayerPrepared /\ MetricLoaded)
    => /\ (varg.mode = "viewport_snapshot" /\ BoxCaptured) => LayerIsInside
       /\ varg.mode \in {"top_n", "request_bounds"} => LayerIsTopN

(* C20: in view mode viewport_snapshot, when at least one loaded cell has    *)
(* its centre within the captured bounds, the layer is exactly the loaded   *)
(* cells within the bounds, however many; when none has, and in view modes  *)
(* top_n and request_bounds, the layer is the max_hexes highest-valued      *)
(* cells by the chosen metric, all cells when there are at most max_hexes.  *)
C20_Layer ==
    (LayerPrepared /\ MetricLoaded)
    => IF varg.mode = "viewport_snapshot" /\ BoxCaptured /\ CellsInside # <<>>
       THEN LayerIsInside /\ ~vres.was_sampled
            /\ vres.mode_used = "viewport_snapshot"
       ELSE (varg.mode = "viewport_snapshot" => BoxCaptured)
            => LayerIsTopN /\ vres.was_sampled = (Len(varg.df) > varg.max_hexes)

\* four cells lie within the captured bounds and all are in the layer
\* although max_hexes is 1
C20_Witness ==
    /\ LayerPrepared /\ MetricLoaded
    /\ varg.mode = "viewport_snapshot" /\ BoxCaptured
    /\ varg.max_hexes = 1
    /\ Len(CellsInside) = 4
    /\ LayerIsInside

\* the top two of four cells in request_bounds
C20_WitnessTopN ==
    /\ LayerPrepared /\ MetricLoaded
    /\ varg.mode = "request_bounds"
    /\ varg.max_hexes = 2 /\ Len(varg.df) = 4
    /\ vres.was_sampled /\ Len(vres.df) = 2

\* no loaded cell lies within the captured bounds and the layer is not empty
C20_WitnessFallback ==
    /\ LayerPrepared /\ MetricLoaded
    /\ varg.mode = "viewport_snapshot" /\ BoxCaptured
    /\ CellsInside = <<>> /\ vres.df # <<>>
    /\ vres.mode_used = "top_n"

----------------------------------------------------------------------------
(* The head of main as a function of the session state it finds and of the  *)
(* year and resolution the sidebar returns, the year selector offering      *)
(* AVAILABLE_YEARS.                                                         *)

AVAILABLE_YEARS == <<2024, 2023, 2022, 2021, 2020>>

SessionStates ==
    [selected_cell : {PyNone, Frame6[1], Frame7[2]},
     prev_h3_res : {PyNone} \cup {PyInt(DEMO_H3_OPTIONS[i]) : i \in 1..2},
     prev_year : {PyNone} \cup {PyInt(AVAILABLE_YEARS[i]) : i \in 1..2},
     view_mode : Modes,
     snapshot_bounds : {PyNone, Box(0, 0, 1, 1), Box(0, 1, MaxLat, 1)}]

InitSession ==
    /\ Idle
    /\ NoSession
    /\ vfn = "main"
    /\ varg \in [ss : SessionStates \cup {<<>>},
                 selected_year : {PyInt(AVAILABLE_YEARS[i]) : i \in 1..Len(AVAILABLE_YEARS)},
                 h3_res : {PyInt(DEMO_H3_OPTIONS[i]) : i \in 1..2}]
    /\ vres = Unset

ApplySessionState ==
    /\ vfn = "main"
    /\ vres = Unset
    /\ vres' = main_session_state(varg.ss, varg.selected_year, varg.h3_res)
    /\ UNCHANGED <<vfn, varg, routerVars, explorerVars>>

NextSession == ApplySessionState

SpecSession == InitSession /\ [][NextSession]_vars

SessionSet == vfn = "main" /\ vres # Unset

\* the session state main finds, a new session holding the defaults
Found == session_defaults(varg.ss)

YearChanged == varg.selected_year # Found.prev_year

ResolutionChanged == varg.h3_res # Found.prev_h3_res

(* C19: whatever the view mode, a year change sets the view mode to top_n   *)
(* and clears the captured bounds; without a year change, a resolution      *)
(* change leaves the view mode and the captured bounds as they were.        *)
C19_YearReset ==
    SessionSet =>
        /\ YearChanged
           => vres.view_mode = "top_n" /\ vres.snapshot_bounds = PyNone
        /\ (~YearChanged /\ ResolutionChanged)
           => /\ vres.view_mode = Found.view_mode
              /\ vres.snapshot_bounds = Found.snapshot_bounds

\* the year changes while a viewport is shown
C19_Witness ==
    /\ SessionSet /\ YearChanged
    /\ Found.view_mode = "viewport_snapshot" /\ Found.snapshot_bounds # PyNone
    /\ Found.prev_year # PyNone
    /\ vres.view_mode = "top_n" /\ vres.snapshot_bounds = PyNone

\* the resolution changes while a viewport is shown
C19_WitnessResolution ==
    /\ SessionSet /\ ~YearChanged /\ ResolutionChanged
    /\ Found.prev_h3_res # PyNone
    /\ vres.view_mode = "viewport_snapshot"
    /\ vres.snapshot_bounds = Box(0, 0, 1, 1)
    /\ vres.prev_h3_res = varg.h3_res

----------------------------------------------------------------------------
(* One script run of the map explorer.  The inputs of a run are the widget  *)
(* values the browser holds and what the run was triggered by:              *)
(*   [h3_res, show_overlay, color_metric, add, reset, last_clicked, bounds] *)
(* add, reset: the button was pressed; last_clicked: the click the map      *)
(* widget holds, None before any; bounds: the bounds the map widget         *)
(* reports, None when it reports none.                                      *)

\* load_data(h3_res, year): the partition, empty when it has no files
load_data(g, h3_res, year) ==
    IF <<year, h3_res>> \in DOMAIN g THEN g[<<year, h3_res>>] ELSE <<>>

\* a variant that answers the first row of the partition when none matches
lookup_cell_nearest(df, h3_index) ==
    LET Hit(r) == r.h3_index = h3_index
    IN  IF SelectSeq(df, Hit) # <<>> THEN SelectSeq(df, Hit)[1]
        ELSE IF df # <<>> THEN df[1] ELSE PyNone

lookup_cell(df, h3_index) ==
    LET Hit(r) == r.h3_index = h3_index
    IN  IF SelectSeq(df, Hit) # <<>> THEN SelectSeq(df, Hit)[1] ELSE PyNone

\* a variant of the capture that stores the bounds and keeps requesting
capture_bounds_still_requesting(s, bounds) == [s EXCEPT !.snapshot_bounds = bounds]

\* the bounds the map widget returned are captured
capture_bounds(s, bounds) ==
    [s EXCEPT !.snapshot_bounds = bounds, !.view_mode = "viewport_snapshot"]

\* the add button showing the viewport at once, with the bounds it finds
request_bounds_skipped(s) == [s EXCEPT !.view_mode = "viewport_snapshot"]

\* the add button: one bounds snapshot is requested on the next render
request_bounds(s) == [s EXCEPT !.view_mode = "request_bounds"]

\* a variant of the reset button that leaves the captured bounds in place
reset_to_top_n_keeping_bounds(s) == [s EXCEPT !.view_mode = "top_n"]

\* the reset button
reset_to_top_n(s) == [s EXCEPT !.view_mode = "top_n", !.snapshot_bounds = PyNone]

\* render_main: the session state it leaves, the value of the map widget,
\* whether it ends in st.rerun(), and the buttons it has rendered enabled
render_main(s, df_full, in) ==
    LET view_mode == s.view_mode
        returned_objs == IF view_mode = "request_bounds"
                         THEN {"last_clicked", "bounds"} ELSE {"last_clicked"}
        map_data == [last_clicked |-> in.last_clicked,
                     bounds |-> IF "bounds" \in returned_objs THEN in.bounds
                                ELSE PyNone]
        add_enabled == in.show_overlay /\ view_mode # "request_bounds"
        reset_enabled == in.show_overlay /\ view_mode = "viewport_snapshot"
        Page(shown, add, reset, rerun) ==
            [map_shown |-> shown,
             returned_objs |-> IF shown THEN returned_objs ELSE {},
             add_enabled |-> add, reset_enabled |-> reset, rerun |-> rerun]
    IN  IF df_full = <<>>
        THEN [ss |-> s, map_data |-> PyNone, page |-> Page(FALSE, FALSE, FALSE, FALSE)]
        ELSE IF view_mode = "request_bounds" /\ ~Empty(map_data.bounds)
        THEN [ss |-> capture_bounds(s, map_data.bounds),
              map_data |-> map_data, page |-> Page(TRUE, FALSE, FALSE, TRUE)]
        ELSE IF add_enabled /\ in.add
        THEN [ss |-> request_bounds(s),
              map_data |-> map_data, page |-> Page(TRUE, TRUE, FALSE, TRUE)]
        ELSE IF reset_enabled /\ in.reset
        THEN [ss |-> reset_to_top_n(s),
              map_data |-> map_data, page |-> Page(TRUE, TRUE, TRUE, TRUE)]
        ELSE [ss |-> s, map_data |-> map_data,
              page |-> Page(TRUE, add_enabled, reset_enabled, FALSE)]

\* main: the session state and the page one script run leaves
main(g, s0, in) ==
    LET s == main_session_state(s0, PyInt(DEMO_YEAR), PyInt(in.h3_res))
        df_full == load_data(g, in.h3_res, DEMO_YEAR)
        layer == prepare_layer(df_full, in.color_metric, MAX_HEXES_DEFAULT,
                               s.view_mode, s.snapshot_bounds)
        r == render_main(s, df_full, in)
        click == r.map_data.last_clicked
        h3_idx == latlng_to_cell(click.lat, click.lng, in.h3_res)
        cell_row == lookup_cell(df_full, h3_idx)
        shown == ("layer" :> (IF in.show_overlay THEN layer.df ELSE <<>>))
                 @@ ("mode_used" :> layer.mode_used)
    IN  IF /\ ~r.page.rerun /\ r.map_data # PyNone /\ click # PyNone
           /\ cell_row # PyNone
           /\ \/ r.ss.selected_cell = PyNone
              \/ r.ss.selected_cell.h3_index # h3_idx
        THEN [ss |-> [r.ss EXCEPT !.selected_cell = cell_row],
              page |-> shown @@ [r.page EXCEPT !.rerun = TRUE]]
        ELSE [ss |-> r.ss, page |-> shown @@ r.page]

----------------------------------------------------------------------------
(* The map explorer: a browser session.  Every user interaction triggers    *)
(* one script run; a run that ends in st.rerun() is followed by another     *)
(* before the user can act.  page.cause is what triggered the last run.     *)

GoldFull == (<<DEMO_YEAR, 6>> :> Frame6) @@ (<<DEMO_YEAR, 7>> :> Frame7)

\* the resolution 7 partition has no files
GoldSparse == <<DEMO_YEAR, 6>> :> Frame6

\* where the user may click, the last place having no data row
Clicks == {[lat |-> 0, lng |-> 0], [lat |-> 1, lng |-> 1], [lat |-> MaxLat, lng |-> 0]}

\* what the user may pan the map to, the last place having no cells
Viewports == {Box(0, 0, 1, 1), Box(0, 1, 1, 1), Box(MaxLat, 0, MaxLat, 1)}

\* the inputs of a run: the widget values of the browser and its trigger
Inputs(b, add, reset, bounds) ==
    [h3_res |-> b.h3_res, show_overlay |-> b.show_overlay,
     color_metric |-> b.color_metric, add |-> add, reset |-> reset,
     last_clicked |-> b.last_clicked, bounds |-> bounds]

Run(in, cause) ==
    /\ \E out \in {main(gold, ss, in)} :
          /\ ss' = out.ss
          /\ page' = ("cause" :> cause) @@ out.page
    /\ UNCHANGED <<gold, routerVars, validatorVars>>

InitMap ==
    /\ Idle
    /\ vfn = "" /\ varg = PyNone /\ vres = Unset
    /\ gold \in {GoldFull, GoldSparse}
    /\ ss = <<>>
    /\ browser = [h3_res |-> DEMO_H3_OPTIONS[1], show_overlay |-> TRUE,
                  color_metric |-> COLOR_METRICS[1], last_clicked |-> PyNone,
                  viewport |-> Box(0, 0, 1, 1)]
    /\ page = <<>>

\* the page is on screen and no rerun is under way
Interactive == page # <<>> /\ ~page.rerun

\* the first script run of the session
Open ==
    /\ page = <<>>
    /\ Run(Inputs(browser, FALSE, FALSE, PyNone), "open")
    /\ UNCHANGED browser

\* st.rerun()
Rerun ==
    /\ page # <<>> /\ page.rerun
    /\ Run(Inputs(browser, FALSE, FALSE, PyNone), "rerun")
    /\ UNCHANGED browser

SlideResolution ==
    /\ Interactive
    /\ \E i \in 1..Len(DEMO_H3_OPTIONS) :
           LET b == [browser EXCEPT !.h3_res = DEMO_H3_OPTIONS[i]]
           IN  /\ b # browser
               /\ browser' = b
               /\ Run(Inputs(b, FALSE, FALSE, PyNone), "resolution")

ToggleOverlay ==
    /\ Interactive
    /\ LET b == [browser EXCEPT !.show_overlay = ~browser.show_overlay]
       IN  /\ browser' = b
           /\ Run(Inputs(b, FALSE, FALSE, PyNone), "overlay")

\* the colour metric selector is disabled without the overlay
SelectMetric ==
    /\ Interactive
    /\ browser.show_overlay
    /\ \E i \in 1..Len(COLOR_METRICS) :
           LET b == [browser EXCEPT !.color_metric = COLOR_METRICS[i]]
           IN  /\ b # browser
               /\ browser' = b
               /\ Run(Inputs(b, FALSE, FALSE, PyNone), "metric")

PressAdd ==
    /\ Interactive
    /\ page.add_enabled
    /\ Run(Inputs(browser, TRUE, FALSE, PyNone), "add")
    /\ UNCHANGED browser

PressReset ==
    /\ Interactive
    /\ page.reset_enabled
    /\ Run(Inputs(browser, FALSE, TRUE, PyNone), "reset")
    /\ UNCHANGED browser

ClickMap ==
    /\ Interactive
    /\ page.map_shown
    /\ \E at \in Clicks :
           LET b == [browser EXCEPT !.last_clicked = at]
           IN  /\ b # browser
               /\ browser' = b
               /\ Run(Inputs(b, FALSE, FALSE, PyNone), "click")

\* panning triggers no run: the bounds are reported only when requested
PanMap ==
    /\ Interactive
    /\ page.map_shown
    /\ \E v \in Viewports :
           /\ v # browser.viewport
           /\ browser' = [browser EXCEPT !.viewport = v]
    /\ UNCHANGED <<gold, ss, page, routerVars, validatorVars>>

\* the map widget reports the bounds it was asked for
BoundsReceived ==
    /\ Interactive
    /\ "bounds" \in page.returned_objs
    /\ Run(Inputs(browser, FALSE, FALSE, browser.viewport), "bounds")
    /\ UNCHANGED browser

NextMap ==
    \/ Open
    \/ Rerun
    \/ SlideResolution
    \/ ToggleOverlay
    \/ SelectMetric
    \/ PressAdd
    \/ PressReset
    \/ ClickMap
    \/ PanMap
    \/ BoundsReceived

SpecMap == InitMap /\ [][NextMap]_vars

----------------------------------------------------------------------------
\* the view mode of the session, top_n being the default of a new one
ViewMode(s) == session_defaults(s).view_mode

CapturedBounds(s) == session_defaults(s).snapshot_bounds

\* the transitions the claim lists
C18_Listed(from, to, cause) ==
    \/ from = "top_n" /\ to = "request_bounds" /\ cause = "add"
    \/ from = "request_bounds" /\ to = "viewport_snapshot" /\ cause = "bounds"
    \/ from = "viewport_snapshot" /\ to = "top_n" /\ cause = "reset"

\* the run finds a year other than the one of the run before
YearChange(s) == PyInt(DEMO_YEAR) # session_defaults(s).prev_year

\* the claim as stated: every step that changes the view mode is one of the
\* listed transitions or a year change leading to top_n
C18_TransitionsAsStated ==
    [][ViewMode(ss') # ViewMode(ss)
       => \/ C18_Listed(ViewMode(ss), ViewMode(ss'), page'.cause)
          \/ ViewMode(ss') = "top_n" /\ YearChange(ss)]_vars

(* C18: every step that changes the view mode is one of: top_n to           *)
(* request_bounds on the add button, viewport_snapshot to request_bounds    *)
(* on the add button, request_bounds to viewport_snapshot when bounds are   *)
(* received, viewport_snapshot to top_n on the reset button, any mode to    *)
(* top_n on a year change.                                                  *)
C18_Transitions ==
    [][ViewMode(ss') # ViewMode(ss)
       => \/ C18_Listed(ViewMode(ss), ViewMode(ss'), page'.cause)
          \/ /\ ViewMode(ss) = "viewport_snapshot"
             /\ ViewMode(ss') = "request_bounds" /\ page'.cause = "add"
          \/ ViewMode(ss') = "top_n" /\ YearChange(ss)]_vars

\* the add button pressed while a viewport is shown: a new capture is
\* requested, the bounds of the last one still held
C18_Witness ==
    /\ page # <<>> /\ page.cause = "add"
    /\ ss.view_mode = "request_bounds"
    /\ ss.snapshot_bounds # PyNone

\* the whole cycle has been walked: the reset button leaves top_n
C18_WitnessReset ==
    /\ page # <<>> /\ page.cause = "reset"
    /\ ss.view_mode = "top_n" /\ ss.snapshot_bounds = PyNone

\* a run triggered by the resolution slider leaves the view mode and the
\* captured bounds as they were
ResolutionKeepsView ==
    [][page'.cause = "resolution"
       => /\ ViewMode(ss') = ViewMode(ss)
          /\ CapturedBounds(ss') = CapturedBounds(ss)]_vars

----------------------------------------------------------------------------
(* The year range of GetHexMetrics *)

\* the arguments of the statement a handler executed on the given table
StatementArgs(q) ==
    (CHOOSE o \in {trace.ops[i] : i \in 1..Len(trace.ops)} : o.q = q).args

\* the flat mapping get_hex_metrics reads its parameters from
SeenByMetrics == ParseParams(event.parameters, event.requestBody)

MetricsQueried == trace.called = "GetHexMetrics" /\ Executed("cell_metrics")

MonthsSeen == Get(SeenByMetrics, "last_n_months")

ExplicitRangeSeen ==
    \E key \in {"time_start", "start_year", "time_end", "end_year"} :
        key \in DOMAIN SeenByMetrics

(* C21: in GetHexMetrics a valid last_n_months value m (an integer from 1   *)
(* to 60) restricts the query to the years from                             *)
(* max(2000, current year - floor(m / 12) - 1) to the current year, also    *)
(* when an explicit start or end year is supplied beside it; with neither   *)
(* last_n_months nor an explicit year supplied the query has no year bound. *)
C21_YearRange ==
    MetricsQueried =>
        /\ IsIntegerIn(MonthsSeen, MonthsMin, MonthsMax) =>
              /\ Len(StatementArgs("cell_metrics")) = 4
              /\ StatementArgs("cell_metrics")[3]
                    = PyInt(Max(YearMin, ThisYear - (MonthsSeen.n \div 12) - 1))
              /\ StatementArgs("cell_metrics")[4] = PyInt(ThisYear)
        /\ (MonthsSeen.k = "none" /\ ~ExplicitRangeSeen) =>
              Len(StatementArgs("cell_metrics")) = 2

\* twelve months asked for beside an explicit range of 2015 to 2020
C21_Witness ==
    /\ MetricsQueried
    /\ MonthsSeen = Num(12)
    /\ Get(SeenByMetrics, "start_year") = PyInt(2015)
    /\ StatementArgs("cell_metrics")[3] = PyInt(ThisYear - 2)

\* no year given at all
C21_WitnessUnbounded ==
    /\ MetricsQueried
    /\ MonthsSeen.k = "none" /\ ~ExplicitRangeSeen
    /\ Len(StatementArgs("cell_metrics")) = 2

----------------------------------------------------------------------------
(* The neighbour summary *)

SeenBySummary == neighbor_summary_params(event.parameters, event.requestBody)

\* GetNeighborSummary answered a request that gave no year with a list of rows
SummaryOfLatestYear ==
    /\ trace.called = "GetNeighborSummary"
    /\ Wire(200, "")
    /\ "top_risky_neighbors" \in DOMAIN resp.body
    /\ Get(SeenBySummary, "year").k = "none"

\* the stored rows of the requested cells at the requested resolution
RequestedRows ==
    {r \in {env.cell_metrics[i] : i \in 1..Len(env.cell_metrics)} :
        /\ InSeq(r.h3_index, resp.body.h3_ids)
        /\ r.h3_resolution.n = resp.body.h3_resolution}

LatestYear ==
    CHOOSE y \in {r.year.n : r \in RequestedRows} :
        \A r \in RequestedRows : r.year.n <= y

RowsOfLatestYear == {r \in RequestedRows : r.year.n = LatestYear}

Listed == resp.body.top_risky_neighbors

ListedScore(i) == Listed[i].threat_score_weighted

\* every row of the latest year is listed, once, and nothing else is
AllRowsListed ==
    /\ Len(Listed) = Cardinality(RowsOfLatestYear)
    /\ {Listed[i] : i \in 1..Len(Listed)} = {JsonRow(r) : r \in RowsOfLatestYear}

\* the listed scores descend, and a null score is followed by null scores only
DescendingNullsLast ==
    \A i, j \in 1..Len(Listed) :
        i < j =>
            /\ ListedScore(i).k = "none" => ListedScore(j).k = "none"
            /\ (ListedScore(i).k # "none" /\ ListedScore(j).k # "none") =>
                  Fixed(ListedScore(i)) >= Fixed(ListedScore(j))

CountMatches ==
    resp.body.summary # PyNone =>
        resp.body.summary.cell_count = PyInt(Len(Listed))

(* C22: in GetNeighborSummary with no year supplied the year used is the    *)
(* latest year stored for the requested cells at the requested resolution;  *)
(* top_risky_neighbors holds every metrics row of those cells for that      *)
(* year, in descending order of weighted threat score with null scores      *)
(* last, and summary.cell_count is the number of rows listed.               *)
C22_LatestYearRows ==
    SummaryOfLatestYear =>
        /\ RequestedRows # {} => resp.body.year = PyInt(LatestYear)
        /\ RequestedRows = {} => Listed = <<>>
        /\ RequestedRows # {} => AllRowsListed
        /\ DescendingNullsLast
        /\ CountMatches

\* the year, the rows and the count are as C22 states; only the order of
\* the listed scores is not
C22_RowsAndCount ==
    SummaryOfLatestYear =>
        /\ RequestedRows # {} => resp.body.year = PyInt(LatestYear)
        /\ RequestedRows = {} => Listed = <<>>
        /\ RequestedRows # {} => AllRowsListed
        /\ CountMatches

\* a row listed with a null score ahead of a row with a score
C22_NullFirst ==
    /\ SummaryOfLatestYear
    /\ Len(Listed) >= 2
    /\ ListedScore(1).k = "none"
    /\ ListedScore(2).k # "none"

----------------------------------------------------------------------------
(* The species of a cell *)

SpeciesListed ==
    /\ trace.called = "GetHexSpeciesContext"
    /\ Wire(200, "")
    /\ "top_species" \in DOMAIN resp.body

TopSpecies == resp.body.top_species

\* the stored rows of the answered cell, resolution and year
StoredSpeciesRows ==
    {r \in {env.species_h3_mapping[i] : i \in 1..Len(env.species_h3_mapping)} :
        /\ r.h3_index = resp.body.h3_id
        /\ r.h3_resolution.n = resp.body.h3_resolution
        /\ Truthy(resp.body.year) => r.year = resp.body.year}

IsCount(v) == v.k = "int" \/ (v.k = "float" /\ v.s = "num")

OncePerTaxon ==
    \A i, j \in 1..Len(TopSpecies) :
        i # j => TopSpecies[i].taxon_key # TopSpecies[j].taxon_key

\* the entry of a taxon carries the highest occurrence count stored for it
HighestCountKept ==
    \A i \in 1..Len(TopSpecies) :
        \A r \in StoredSpeciesRows :
            (r.taxon_key = TopSpecies[i].taxon_key /\ IsCount(r.occurrence_count)) =>
                /\ IsCount(TopSpecies[i].occurrence_count)
                /\ Fixed(TopSpecies[i].occurrence_count) >= Fixed(r.occurrence_count)

\* sub is top with some entries left out
IsSubList(sub, top) ==
    \E at \in [1..Len(sub) -> 1..Len(top)] :
        /\ \A k \in 1..Len(sub) : sub[k] = top[at[k]]
        /\ \A k \in 1..(Len(sub) - 1) : at[k] < at[k + 1]

SubLists ==
    /\ IsSubList(resp.body.threatened_species, TopSpecies)
    /\ IsSubList(resp.body.invasive_species, TopSpecies)
    /\ \A i \in 1..Len(TopSpecies) :
          (TopSpecies[i].is_threatened = PyBool(TRUE)
              /\ TopSpecies[i].is_invasive = PyBool(TRUE)) =>
                /\ InSeq(TopSpecies[i], resp.body.threatened_species)
                /\ InSeq(TopSpecies[i], resp.body.invasive_species)

(* C23: in GetHexSpeciesContext top_species holds each taxon key at most    *)
(* once, with the row of the highest occurrence count stored for that       *)
(* taxon; threatened_species and invasive_species are sub-lists of          *)
(* top_species in the same order, and a species flagged both threatened     *)
(* and invasive is in both.                                                 *)
C23_TopSpecies ==
    SpeciesListed => (OncePerTaxon /\ HighestCountKept /\ SubLists)

\* all of C23 but the choice of the row kept for a taxon
C23_OnceAndSubLists ==
    SpeciesListed => (OncePerTaxon /\ SubLists)

\* a taxon listed with a null count although a count is stored for it
C23_NullCountKept ==
    /\ SpeciesListed
    /\ \E i \in 1..Len(TopSpecies) :
          /\ TopSpecies[i].occurrence_count = PyNone
          /\ \E r \in StoredSpeciesRows :
                r.taxon_key = TopSpecies[i].taxon_key /\ IsCount(r.occurrence_count)

----------------------------------------------------------------------------
(* The species profiles *)

ProfilesAnswered ==
    /\ trace.called = "GetSpeciesProfiles"
    /\ Wire(200, "")
    /\ "count" \in DOMAIN resp.body

\* the identifiers the handler works on: the validated list
RequestedSpecies ==
    validate_species_list(
        Get(species_profiles_params(event.parameters, event.requestBody),
            "species_ids_or_names")).val.items

RequestedNames == {x \in {RequestedSpecies[i] : i \in 1..Len(RequestedSpecies)} : IsName(x)}

Profiles == resp.body.profiles

\* the positions in the trace of a statement with the given argument
IssuedAt(q, arg) ==
    {i \in 1..Len(trace.ops) : trace.ops[i].q = q /\ trace.ops[i].args = <<arg>>}

StoredIucn == {env.iucn_species_profiles[i] : i \in 1..Len(env.iucn_species_profiles)}

StoredDim == {env.species_dim[i] : i \in 1..Len(env.species_dim)}

ExactMatch(name) == \E r \in StoredIucn : Lower(r.scientific_name) = Lower(name)

SubstringMatch(name) ==
    \E r \in StoredDim :
        r.species_name.k = "str" /\ Holds(Lower(r.species_name), Lower(name))

IsProfileFrom(pr, source) == "source" \in DOMAIN pr /\ pr.source = PyStr(source, 0, 0)

(* C24: in GetSpeciesProfiles each requested non-numeric name is looked up  *)
(* by exact case-insensitive match first; the substring match is tried      *)
(* only when the exact match finds nothing; when both find nothing the      *)
(* profiles hold the entry {requested: name, found: false}; count is the    *)
(* number of entries of profiles.                                           *)
C24_NameLookup ==
    ProfilesAnswered =>
        /\ \A name \in RequestedNames :
              /\ IssuedAt("iucn_exact", name) # {}
              /\ \A i \in IssuedAt("species_dim_like", name) :
                    \E j \in IssuedAt("iucn_exact", name) : j < i
              /\ IssuedAt("species_dim_like", name) # {} <=> ~ExactMatch(name)
              /\ ExactMatch(name) =>
                    \E i \in 1..Len(Profiles) :
                        /\ IsProfileFrom(Profiles[i], "iucn_species_profiles")
                        /\ Lower(Profiles[i].scientific_name) = Lower(name)
              /\ (~ExactMatch(name) /\ ~SubstringMatch(name)) =>
                    InSeq(NotFound(name), Profiles)
        /\ resp.body.count = Len(Profiles)

\* a name found by the substring match only, beside a numeric key
C24_Witness ==
    /\ ProfilesAnswered
    /\ \E name \in RequestedNames :
          /\ ~ExactMatch(name) /\ SubstringMatch(name)
          /\ IssuedAt("species_dim_like", name) # {}
    /\ resp.body.count >= 2

\* a name found by neither match, beside one found exactly
C24_WitnessNotFound ==
    /\ ProfilesAnswered
    /\ \E name \in RequestedNames : InSeq(NotFound(name), Profiles)
    /\ \E name \in RequestedNames : ExactMatch(name)

----------------------------------------------------------------------------
\* a profile that answers the requested identifier x
Answers(pr, x) ==
    IF IsNumeric(x)
    THEN "taxon_key" \in DOMAIN pr /\ pr.taxon_key = PyInt(ToInt(x).val.n)
    ELSE \/ /\ IsProfileFrom(pr, "iucn_species_profiles")
            /\ Lower(pr.scientific_name) = Lower(x)
         \/ /\ IsProfileFrom(pr, "gbif_species_dim")
            /\ pr.species_name.k = "str"
            /\ Holds(Lower(pr.species_name), Lower(x))

AccountedFor(x) ==
    \/ \E i \in 1..Len(Profiles) : Answers(Profiles[i], x)
    \/ InSeq(NotFound(x), Profiles)

(* C25: every identifier requested from GetSpeciesProfiles, numeric taxon   *)
(* key or name, is accounted for in the response: the profiles hold a       *)
(* profile matching it or an entry with found = false for it.               *)
C25_Accounted ==
    ProfilesAnswered =>
        \A i \in 1..Len(RequestedSpecies) : AccountedFor(RequestedSpecies[i])

\* the names are accounted for; the numeric keys are not
C25_NamesAccounted ==
    ProfilesAnswered => \A name \in RequestedNames : AccountedFor(name)

\* a numeric key with no row: the response says nothing about it
C25_KeyDropped ==
    /\ ProfilesAnswered
    /\ \E i \in 1..Len(RequestedSpecies) :
          /\ IsNumeric(RequestedSpecies[i])
          /\ ~AccountedFor(RequestedSpecies[i])
    /\ Profiles # <<>>

----------------------------------------------------------------------------
(* The wire shape *)

\* the environment in another state of health
InHealth(c, a, q) == [env EXCEPT !.creds = c, !.connect = a, !.query = q]

\* the shape lambda_handler answers this event with in that environment
ShapeIn(e) == lambda_handler(event, e).resp.shape

(* C26: the wire shape of the response is a function of the invocation      *)
(* event alone: whatever the outcome (success, validation failure,          *)
(* internal failure, unknown tool), a fixed event is answered in the same   *)
(* shape in every environment.                                              *)
C26_ShapeOfEvent ==
    Handled =>
        \A c, a, q \in BOOLEAN : ShapeIn(InHealth(c, a, q)) = resp.shape

\* when the function key is absent or non-empty the shape is that of the
\* event: B exactly when the event has a function key
C26_ShapeWhenNamed ==
    (Handled /\ (event.hasFunction => event.function # EmptyId)) =>
        /\ resp.shape = "B" <=> event.hasFunction
        /\ \A c, a, q \in BOOLEAN : ShapeIn(InHealth(c, a, q)) = resp.shape

\* an event with an empty function key failed in shape A although it
\* succeeds in shape B
C26_ShapeChanged ==
    /\ Handled
    /\ event.hasFunction /\ event.function = EmptyId
    /\ trace.called # "None"
    /\ IsError /\ resp.shape = "A"
    /\ ShapeIn(InHealth(TRUE, TRUE, TRUE)) = "B"

----------------------------------------------------------------------------
(* The parameters as the router and the handlers read them *)

\* the flat mapping the router infers a tool from
RouterParams == params_to_dict(event.parameters, event.requestBody)

\* the flat mapping the handler of a tool reads its parameters from
HandlerParams(tool) ==
    CASE tool \in {"GetNeighborHexes", "GetOSMContext", "GetHexSpeciesContext"} ->
            ParseParamsListOnly(event.parameters, event.requestBody)
      [] tool = "GetNeighborSummary" ->
            neighbor_summary_params(event.parameters, event.requestBody)
      [] tool = "GetSpeciesProfiles" ->
            species_profiles_params(event.parameters, event.requestBody)
      [] OTHER -> ParseParams(event.parameters, event.requestBody)

SeesAsRouter(tool) ==
    \A key \in DOMAIN RouterParams :
        /\ key \in DOMAIN HandlerParams(tool)
        /\ HandlerParams(tool)[key] = RouterParams[key]

(* C27: every parameter the router sees, from the parameter list, from a    *)
(* list-shaped body properties field or from a mapping-shaped one, is seen  *)
(* with the same value by each of the seven handlers.                       *)
C27_SameParams ==
    Handled => \A tool \in Tools : SeesAsRouter(tool)

\* the two handlers that normalise nothing read what the router reads; the
\* three that skip a mapping-shaped properties field do so when the body
\* has none
C27_SameParamsElsewhere ==
    Handled =>
        /\ SeesAsRouter("GetHexMetrics")
        /\ SeesAsRouter("GetInfoAboutThreatenedSpecies")
        /\ event.requestBody.kind # "dict" =>
              \A tool \in {"GetNeighborHexes", "GetOSMContext", "GetHexSpeciesContext"} :
                  SeesAsRouter(tool)

\* a handler ran without a parameter the router saw in a mapping-shaped body
C27_BodyIgnored ==
    /\ Handled
    /\ trace.called \in {"GetNeighborHexes", "GetOSMContext", "GetHexSpeciesContext"}
    /\ event.requestBody.kind = "dict"
    /\ "h3_res" \in DOMAIN RouterParams
    /\ "h3_res" \notin DOMAIN HandlerParams(trace.called)

----------------------------------------------------------------------------
(* The captured bounds of the map explorer *)

BoundsMatchMode ==
    /\ ViewMode(ss) = "viewport_snapshot" => ~Empty(CapturedBounds(ss))
    /\ ViewMode(ss) = "top_n" => CapturedBounds(ss) = PyNone

\* the step is one of the three that write the captured bounds
BoundsWriter ==
    \/ ViewMode(ss) = "request_bounds" /\ ViewMode(ss') = "viewport_snapshot"
    \/ page'.cause = "reset"
    \/ YearChange(ss)

(* C28: in every reachable state of the map explorer view mode              *)
(* viewport_snapshot implies that the captured bounds are set and view      *)
(* mode top_n that they are cleared; the captured bounds change only in     *)
(* the step from request_bounds to viewport_snapshot, on the reset button   *)
(* and on the reset of a year change.                                       *)
C28_CapturedBounds ==
    /\ []BoundsMatchMode
    /\ [][CapturedBounds(ss') # CapturedBounds(ss) => BoundsWriter]_vars

\* a second capture has replaced the bounds of the first, and the reset
\* button has cleared bounds before
C28_Witness ==
    /\ page # <<>> /\ page.cause = "bounds"
    /\ ss.view_mode = "viewport_snapshot"
    /\ ss.snapshot_bounds = Box(0, 1, 1, 1)
    /\ browser.viewport = Box(0, 1, 1, 1)

----------------------------------------------------------------------------
(* The map explorer with its scheduling: a run that ends in st.rerun() is   *)
(* followed by the next run, and a map widget that is rendered with its     *)
(* bounds requested again and again reports them.                           *)

SpecMapFair == SpecMap /\ WF_vars(Rerun) /\ SF_vars(BoundsReceived)

\* the last run rendered no map: the displayed partition has no rows
NoMapRendered == page # <<>> /\ ~page.map_shown

\* the claim as stated: request_bounds always leads to viewport_snapshot
C29_TransientAsStated ==
    (ViewMode(ss) = "request_bounds") ~> (ViewMode(ss) = "viewport_snapshot")

(* C29: the request_bounds view mode is transient while a map is rendered:  *)
(* with page reruns occurring and the map widget reporting its bounds when  *)
(* rendered, from view mode request_bounds the view mode becomes            *)
(* viewport_snapshot, or the user has switched to a partition without rows, *)
(* for which no map is rendered.                                            *)
C29_Transient ==
    (ViewMode(ss) = "request_bounds")
        ~> (ViewMode(ss) = "viewport_snapshot" \/ NoMapRendered)

\* the rerun after the add button: the map is rendered with its bounds
\* requested and both buttons disabled
C29_Witness ==
    /\ page # <<>> /\ page.cause = "rerun"
    /\ ss.view_mode = "request_bounds"
    /\ page.map_shown /\ "bounds" \in page.returned_objs
    /\ ~page.add_enabled /\ ~page.reset_enabled

\* the resolution slider moved to the partition without rows while a
\* capture was requested: no map, no buttons, the request stays
C29_WitnessNoMap ==
    /\ NoMapRendered
    /\ page.cause = "resolution"
    /\ ss.view_mode = "request_bounds"

----------------------------------------------------------------------------
(* The selected cell of the map explorer *)

Selected == session_defaults(ss).selected_cell

\* the partition on display: the selected resolution of the demo year
Displayed == load_data(gold, browser.h3_res, DEMO_YEAR)

\* the displayed partition has no row for the cell of the last click
NoRowAtLastClick ==
    \/ browser.last_clicked = PyNone
    \/ \A i \in 1..Len(Displayed) :
          Displayed[i].h3_index
              # latlng_to_cell(browser.last_clicked.lat, browser.last_clicked.lng,
                               browser.h3_res)

\* the step is a click where the displayed partition has no row, and it
\* leaves the selected cell as it was
ClickWithoutRow ==
    (page'.cause = "click" /\ NoRowAtLastClick') => Selected' = Selected

\* the claim as stated: the selected cell is always a row of the displayed
\* partition
C30_SelectedAsStated ==
    /\ [](Selected # PyNone =>
            /\ Selected.h3_resolution = browser.h3_res
            /\ Selected.year = DEMO_YEAR
            /\ InSeq(Selected, Displayed))
    /\ [][ClickWithoutRow]_vars

(* C30: in every reachable state of the map explorer the selected cell,     *)
(* when set, is a row of the selected year, stored in the partition of its  *)
(* own resolution; its resolution is the selected resolution unless the     *)
(* displayed partition has no row at the last clicked location (the         *)
(* selection outlives a change of resolution); a click on a location        *)
(* without a data row leaves the selected cell unchanged.                   *)
C30_Selected ==
    /\ [](Selected # PyNone =>
            /\ Selected.year = DEMO_YEAR
            /\ InSeq(Selected, load_data(gold, Selected.h3_resolution, DEMO_YEAR))
            /\ Selected.h3_resolution = browser.h3_res \/ NoRowAtLastClick)
    /\ [][ClickWithoutRow]_vars

\* a cell is selected and the user has then clicked where there is no row
C30_Witness ==
    /\ page # <<>> /\ page.cause = "click"
    /\ Selected # PyNone
    /\ NoRowAtLastClick
    /\ Selected.h3_resolution = browser.h3_res

\* a cell selected at resolution 6 is still selected at resolution 7
C30_WitnessOutlived ==
    /\ page # <<>> /\ page.cause = "resolution"
    /\ Selected # PyNone
    /\ Selected.h3_resolution = 6 /\ browser.h3_res = 7

====
